---------------------------- MODULE Spec2Model ----------------------------
(***************************************************************************)
(* Decision / matching / aggregation core of the cervical screener:        *)
(*   training/cervical_screening/evaluation/predictor.py                  *)
(*   training/cervical_screening/evaluation/slide_aggregator.py           *)
(*   training/cervical_screening/evaluation/metrics.py                    *)
(*   training/cervical_screening/evaluation/tta_evaluator.py              *)
(*   training/cervical_screening/config/training_config.py                *)
(*                                                                         *)
(* Numbers.  Scores, thresholds and percentages are floats in the code.   *)
(* Here a probability or ratio is an exact fraction [num, den] (den > 0,   *)
(* or den = 0 for the result of a division by zero), thresholds are in     *)
(* hundredths, and class logits are integer multiples of ln 2, so that     *)
(* exp(logit) = 2^k and softmax is an exact fraction.                      *)
(***************************************************************************)
EXTENDS Integers, Sequences, FiniteSets, TLC

VARIABLES
    \* ImprovedPredictor.predict
    p_pc,            \* "idle" | "loop" | "returned"
    boxes,           \* results[0].boxes: the detector's raw boxes
    p_i,             \* position of the enumerate(boxes) loop (1-based)
    detections,      \* the detections list being built
    p_ret,           \* the returned dictionary
    \* SlideAggregator
    class_names,     \* self.class_names given to the constructor
    slide_boxes,     \* boxes.cls of the slide handed to aggregate_slide
    slide_result,    \* the dictionary aggregate_slide returned
    \* MetricsCalculator._calculate_iou
    box1, box2, iou,
    \* MetricsCalculator.calculate_detection_metrics / _calculate_ap_for_class
    predictions,     \* list of {boxes, classes, scores} per image
    ground_truth,    \* list of {boxes, classes} per image
    iou_threshold,
    m_pc,            \* "idle" | "image" | "preds" | "fn" | "metrics" | "returned"
    m_img,           \* index of the image of the zip(predictions, ground_truth) loop
    sorted_indices,  \* remaining part of np.argsort(pred_scores)[::-1]
    matched_gt,      \* set of matched ground-truth indices of the current image
    tp, fp, fn,      \* defaultdict(int) counters per class id
    metrics,         \* the returned per-class metrics
    match_log,       \* history: <<image, prediction index, gt index>> of every match
    step_log,        \* history: one record per processed prediction
    \* MetricsCalculator._calculate_ap_for_class
    a_pc,            \* "idle" | "sweep" | "returned"
    class_id,        \* the class the AP is computed for
    all_predictions, \* pooled predictions of class_id, sorted by score
    a_k,             \* position of the sweep in all_predictions (1-based)
    total_gt,
    ap_tp, ap_fp,
    ap_matched_gt,   \* one set of matched gt indices per image
    precisions, recalls,
    ap,              \* the returned AP
    ap_match_log,    \* history: <<image, pooled position, gt index>> of every match
    \* MetricsCalculator.calculate_map
    q_pc,            \* "idle" | "classes" | "returned" | "raised"
    iou_thresholds,  \* the list of IoU thresholds of the call
    q_t,             \* position of the loop over iou_thresholds (1-based)
    q_class,         \* class_id of the loop over range(self.num_classes)
    class_aps,       \* the AP values of the current threshold, per class
    aps,             \* one mean per finished threshold
    map_results,     \* the returned dictionary
    \* TTAEvaluator.evaluate_dataset / generate_summary
    t_pc,            \* "idle" | "warmup" | "loop" | "returned" | "raised" | "summarised"
    verbose,
    image_paths,     \* the images of the directory, each with what the detector does on it
    t_i,             \* position of the loop over image_paths (1-based)
    results,         \* the list of comparison dictionaries
    summary,         \* the dictionary generate_summary returned
    \* POST /v1/classify of src/main.py
    h_pc,            \* "init" | "serving" | "handling"
    model_inference, \* "None" | "YOLO": the global set by the startup event
    req,             \* the ClassifyReq of the last request
    inference,       \* "not_run" | "raised" | "returned": model_inference.predict in that request
    resp,            \* the response sent: status code and body
    \* ModelEvaluator.evaluate_on_dataset
    e_pc,            \* "idle" | "predicting" | "returned" | "raised"
    e_image_paths,   \* the images of image_dir, each with what the detector returns on it
    e_i,             \* position of the loop over image_paths (1-based)
    e_predictions,   \* the predictions list
    e_results        \* the returned dictionary

pvars == <<p_pc, boxes, p_i, detections, p_ret>>
svars == <<class_names, slide_boxes, slide_result>>
uvars == <<box1, box2, iou>>
bvars == <<predictions, ground_truth, iou_threshold>>
mvars == <<m_pc, m_img, sorted_indices, matched_gt, tp, fp, fn, metrics,
           match_log, step_log>>
avars == <<a_pc, class_id, all_predictions, a_k, total_gt, ap_tp, ap_fp,
           ap_matched_gt, precisions, recalls, ap, ap_match_log>>
qvars == <<q_pc, iou_thresholds, q_t, q_class, class_aps, aps, map_results>>
tvars == <<t_pc, verbose, image_paths, t_i, results, summary>>
hvars == <<h_pc, model_inference, req, inference, resp>>
evars == <<e_pc, e_image_paths, e_i, e_predictions, e_results>>
vars == <<pvars, svars, uvars, bvars, mvars, avars, qvars, tvars, hvars, evars>>

\* Python's None, where a variable holds a dictionary or a number otherwise
None == [none |-> TRUE]

-----------------------------------------------------------------------------
(* Exact fractions *)

RECURSIVE GCD(_, _)
GCD(a, b) == IF b = 0 THEN a ELSE GCD(b, a % b)

Rat(n, d) == IF d = 0 THEN [num |-> n, den |-> 0]
             ELSE LET g == GCD(n, d) IN
                  IF g = 0 THEN [num |-> 0, den |-> 1]
                  ELSE [num |-> n \div g, den |-> d \div g]

Zero == Rat(0, 1)
One == Rat(1, 1)
\* raised by a / b with b = 0
ZeroDivisionError == [num |-> 1, den |-> 0]

RatEq(a, b)  == a.num * b.den = b.num * a.den
RatLt(a, b)  == a.num * b.den < b.num * a.den
RatLeq(a, b) == a.num * b.den <= b.num * a.den
RatGt(a, b)  == RatLt(b, a)
RatGeq(a, b) == RatLeq(b, a)
RatAdd(a, b) == Rat(a.num * b.den + b.num * a.den, a.den * b.den)
RatMul(a, b) == Rat(a.num * b.num, a.den * b.den)
RatSub(a, b) == Rat(a.num * b.den - b.num * a.den, a.den * b.den)
\* abs(a)
RatAbs(a) == IF a.num < 0 THEN [num |-> 0 - a.num, den |-> a.den] ELSE a
\* Python's a / b on numbers: raises when b == 0
RatDiv(a, b) == IF a.den = 0 \/ b.den = 0 \/ b.num = 0 THEN ZeroDivisionError
                ELSE Rat(a.num * b.den, a.den * b.num)

RECURSIVE Pow2(_)
Pow2(k) == IF k = 0 THEN 1 ELSE 2 * Pow2(k - 1)

RECURSIVE SumSeq(_)
SumSeq(s) == IF s = <<>> THEN 0 ELSE Head(s) + SumSeq(Tail(s))

Range(s) == {s[j] : j \in 1..Len(s)}

SeqsUpTo(S, n) == UNION {[1..m -> S] : m \in 0..n}

-----------------------------------------------------------------------------
(* TrainingConfig *)

\* self.objectness_threshold = 0.20, in hundredths
objectness_threshold == 20

\* self.per_class_thresholds, in hundredths
per_class_thresholds ==
    [n \in {"NILM", "ASC-US", "ASC-H", "LSIL", "HSIL", "SCC"} |->
        CASE n = "NILM" -> 40
          [] n = "ASC-US" -> 35
          [] n = "ASC-H" -> 30
          [] n = "LSIL" -> 30
          [] n = "HSIL" -> 25
          [] n = "SCC" -> 25]

\* self.class_names of TrainingConfig
ConfigClassNames == <<"NILM", "ASC-US", "ASC-H", "LSIL", "HSIL", "SCC">>

\* the fallback of per_class_thresholds.get(class_name, 0.3), in hundredths
DefaultThreshold == 30

-----------------------------------------------------------------------------
(* ImprovedPredictor.predict *)

\* largest number of raw boxes the detector returns for one image
MaxBoxes == 2

\* F.softmax(class_scores, dim=0) on logits k[j] * ln 2: 2^k[j] / sum 2^k
Softmax(scores) ==
    LET w == [j \in 1..Len(scores) |-> Pow2(scores[j])]
    IN  [j \in 1..Len(scores) |-> Rat(w[j], SumSeq(w))]

\* np.argmax: position (0-based) of the first largest element
ArgMax(probs) ==
    (CHOOSE j \in 1..Len(probs) :
        /\ \A l \in 1..Len(probs) : RatLeq(probs[l], probs[j])
        /\ \A l \in 1..(j - 1) : RatLt(probs[l], probs[j])) - 1

\* if objectness < self.config.objectness_threshold: continue
ObjectnessRejected_NoGate(objectness) == FALSE
ObjectnessRejected(objectness) == objectness < objectness_threshold

\* class_id and class_prob of one box (box.data[5:] holds the class scores)
ClassOf_FallbackCertain(box) ==
    IF Len(box.data) > 0
    THEN LET class_probs == Softmax(box.data)
             cid == ArgMax(class_probs)
         IN  [class_id |-> cid, class_prob |-> class_probs[cid + 1]]
    ELSE [class_id |-> box.cls, class_prob |-> One]
ClassOf(box) ==
    IF Len(box.data) > 0
    THEN LET class_probs == Softmax(box.data)
             cid == ArgMax(class_probs)
         IN  [class_id |-> cid, class_prob |-> class_probs[cid + 1]]
    ELSE [class_id |-> box.cls, class_prob |-> Rat(box.conf, 100)]

\* self.class_names[class_id] if class_id < len(self.class_names) else "class_<id>"
ClassName(cid) ==
    IF cid < Len(ConfigClassNames) THEN ConfigClassNames[cid + 1]
    ELSE "class_" \o ToString(cid)

\* self.config.per_class_thresholds.get(class_name, 0.3)
ThresholdFor_OtherDefault(name) ==
    IF name \in DOMAIN per_class_thresholds THEN per_class_thresholds[name]
    ELSE 50
ThresholdFor(name) ==
    IF name \in DOMAIN per_class_thresholds THEN per_class_thresholds[name]
    ELSE DefaultThreshold

\* class_prob >= class_threshold
PassesThreshold(class_prob, class_threshold) ==
    RatGeq(class_prob, Rat(class_threshold, 100))

\* the detection dictionary built for one box that passed the objectness gate
Detection(box) ==
    LET c == ClassOf(box)
        name == ClassName(c.class_id)
        thr == ThresholdFor(name)
    IN  [box |-> box.xyxy,
         objectness |-> box.conf,
         class_id |-> c.class_id,
         class_name |-> name,
         confidence |-> c.class_prob,
         passes_threshold |-> PassesThreshold(c.class_prob, thr),
         threshold_used |-> thr]

\* A logit vector with one raised entry: m * ln 2 at position j, 0 elsewhere
Peak(n, j, m) == [l \in 1..n |-> IF l = j THEN m ELSE 0]

\* box.data[5:] as the detector may hand it over: a full score vector, no
\* vector at all, or a vector of another length
ScoreVectors ==
    {Peak(6, j, m) : j \in 1..6, m \in 0..2} \cup {<<>>, <<3>>, Peak(7, 7, 2)}

\* raw boxes: objectness below, at and above the gate (hundredths)
RawBoxes ==
    [conf : {10, 20, 30, 45}, cls : {0}, data : ScoreVectors \ {<<>>},
     xyxy : {<<0, 0, 2, 2>>}]
    \cup
    [conf : {10, 20, 30, 45}, cls : {0, 5, 6}, data : {<<>>},
     xyxy : {<<0, 0, 2, 2>>}]

\* what self.model(image_path, ...) may return: results[0].boxes is None
\* (present = FALSE) or a list of boxes
DetectorOutputs ==
    {[present |-> FALSE, boxes |-> <<>>]}
    \cup [present : {TRUE}, boxes : SeqsUpTo(RawBoxes, MaxBoxes)]

EmptyPrediction == [detections |-> <<>>, total_boxes |-> 0, accepted |-> 0]

PIdle ==
    /\ p_pc = "idle"
    /\ boxes = <<>>
    /\ p_i = 0
    /\ detections = <<>>
    /\ p_ret = None

\* lines 41-52: the detector call and the early return
PredictCall ==
    /\ p_pc = "idle"
    /\ \E raw \in DetectorOutputs :
        IF ~raw.present \/ Len(raw.boxes) = 0
        THEN /\ p_ret' = EmptyPrediction
             /\ p_pc' = "returned"
             /\ UNCHANGED <<boxes, p_i, detections>>
        ELSE /\ boxes' = raw.boxes
             /\ p_i' = 1
             /\ detections' = <<>>
             /\ p_pc' = "loop"
             /\ UNCHANGED p_ret
    /\ UNCHANGED <<svars, uvars, bvars, mvars, avars, qvars, tvars, hvars, evars>>

\* lines 54-101: one iteration of the loop over boxes
PredictBox ==
    /\ p_pc = "loop"
    /\ p_i <= Len(boxes)
    /\ detections' = IF ObjectnessRejected(boxes[p_i].conf) THEN detections
                     ELSE Append(detections, Detection(boxes[p_i]))
    /\ p_i' = p_i + 1
    /\ UNCHANGED <<p_pc, boxes, p_ret>>
    /\ UNCHANGED <<svars, uvars, bvars, mvars, avars, qvars, tvars, hvars, evars>>

\* lines 103-110
PredictReturn ==
    /\ p_pc = "loop"
    /\ p_i > Len(boxes)
    /\ p_ret' = [detections |-> detections,
                 total_boxes |-> Len(boxes),
                 accepted |-> Cardinality({j \in 1..Len(detections) :
                                             detections[j].passes_threshold})]
    /\ p_pc' = "returned"
    /\ UNCHANGED <<boxes, p_i, detections>>
    /\ UNCHANGED <<svars, uvars, bvars, mvars, avars, qvars, tvars, hvars, evars>>

-----------------------------------------------------------------------------
(* SlideAggregator *)

\* class_names of experiments/slide_aggregation/aggregate.py
ExperimentClassNames ==
    <<"Negative for intraepithelial lesion", "ASC-US", "ASC-H", "LSIL", "HSIL", "SCC">>

\* boxes.cls is modelled as a sequence of runs [cls, n]: n consecutive boxes
\* of class id cls.  The tally adds 1 per box, so a run adds n.
RunsOf(counts) ==
    LET ids == {c \in DOMAIN counts : counts[c] > 0}
        RECURSIVE Build(_)
        Build(S) == IF S = {} THEN <<>>
                    ELSE LET c == CHOOSE x \in S : \A y \in S : x <= y
                         IN  <<[cls |-> c, n |-> counts[c]]>> \o Build(S \ {c})
    IN  Build(ids)

\* cells per class id of the slides handed to the aggregator; id 6 is a
\* class id outside class_names
SlideCounts ==
    {[c \in 0..6 |-> CASE c = 0 -> n0 [] c = 1 -> n1 [] c = 2 -> n2 [] c = 3 -> n3
                       [] c = 4 -> n4 [] c = 5 -> n5 [] c = 6 -> n6] :
        n0 \in {0, 1, 89, 91, 92, 97, 98, 99, 293, 2000},
        n1 \in {0, 3, 9, 10, 11},
        n2 \in {0, 2, 15, 16},
        n3 \in {0, 2, 5, 6},
        n4 \in {0, 1, 10, 11},
        n5 \in {0, 1},
        n6 \in {0, 1}}

SlideInputs == {RunsOf(c) : c \in SlideCounts}

\* self.class_map.get(class_id, f"Unknown_{class_id}")
ClassMapGet(names, cid) ==
    IF cid < Len(names) THEN names[cid + 1] ELSE "Unknown_" \o ToString(cid)

\* lines 61-67: cell_counts = Counter(); cell_counts[class_name] += 1 per box
RECURSIVE Tally(_, _, _)
Tally(names, runs, counter) ==
    IF runs = <<>> THEN counter
    ELSE LET name == ClassMapGet(names, Head(runs).cls)
             old == IF name \in DOMAIN counter THEN counter[name] ELSE 0
         IN  Tally(names, Tail(runs),
                   [k \in DOMAIN counter \cup {name} |->
                        IF k = name THEN old + Head(runs).n ELSE counter[k]])

\* sum(cell_counts.values())
RECURSIVE SumValues(_)
SumValues(counter) ==
    IF DOMAIN counter = {} THEN 0
    ELSE LET k == CHOOSE x \in DOMAIN counter : TRUE
         IN  counter[k] + SumValues([x \in DOMAIN counter \ {k} |-> counter[x]])

\* len(boxes)
NumBoxes(runs) == SumSeq([j \in 1..Len(runs) |-> runs[j].n])

\* cell_counts.get(name, 0)
CountGet(cell_counts, name) ==
    IF name \in DOMAIN cell_counts THEN cell_counts[name] ELSE 0

\* (count / total_cells * 100) if total_cells > 0 else 0
Pct(count, total_cells) ==
    IF total_cells > 0 THEN Rat(count * 100, total_cells) ELSE Zero

\* the key under which the normal cells are looked up (line 127)
NilmKey == "Negative for intraepithelial lesion"

\* lines 138-139: if scc_count > 0
SccRule_Share(scc_count, scc_pct) == RatGt(scc_pct, Rat(1, 1))
SccRule(scc_count, scc_pct) == scc_count > 0

\* the count-or-percentage test of one abnormal rule (lines 140-147)
RuleMatches_CountOnly(count, pct, min_count, min_pct) ==
    count > min_count
RuleMatches_ShareOnly(count, pct, min_count, min_pct) ==
    RatGt(pct, Rat(min_pct, 1))
RuleMatches(count, pct, min_count, min_pct) ==
    count > min_count \/ RatGt(pct, Rat(min_pct, 1))

\* _apply_aggregation_rules: <<diagnosis, confidence>>
ApplyAggregationRules(cell_counts, total_cells) ==
    LET scc_count == CountGet(cell_counts, "SCC")
        hsil_count == CountGet(cell_counts, "HSIL")
        asch_count == CountGet(cell_counts, "ASC-H")
        lsil_count == CountGet(cell_counts, "LSIL")
        ascus_count == CountGet(cell_counts, "ASC-US")
        nilm_count == CountGet(cell_counts, NilmKey)
        scc_pct == Pct(scc_count, total_cells)
        hsil_pct == Pct(hsil_count, total_cells)
        asch_pct == Pct(asch_count, total_cells)
        lsil_pct == Pct(lsil_count, total_cells)
        ascus_pct == Pct(ascus_count, total_cells)
        nilm_pct == Pct(nilm_count, total_cells)
    IN  IF SccRule(scc_count, scc_pct) THEN <<"SCC", scc_pct>>
        ELSE IF RuleMatches(hsil_count, hsil_pct, 10, 1) THEN <<"HSIL", hsil_pct>>
        ELSE IF RuleMatches(asch_count, asch_pct, 15, 2) THEN <<"ASC-H", asch_pct>>
        ELSE IF RuleMatches(lsil_count, lsil_pct, 5, 2) THEN <<"LSIL", lsil_pct>>
        ELSE IF RuleMatches(ascus_count, ascus_pct, 10, 3) THEN <<"ASC-US", ascus_pct>>
        ELSE <<"NILM", nilm_pct>>

\* the dictionary returned when len(boxes) == 0 (lines 43-54)
InsufficientResult ==
    [total_cells |-> 0,
     cell_counts |-> <<>>,
     cell_percentages |-> <<>>,
     slide_diagnosis |-> "INSUFFICIENT",
     diagnosis_confidence |-> Zero]

\* if len(boxes) == 0
NoBoxes_Never(runs) == FALSE
NoBoxes(runs) == NumBoxes(runs) = 0

\* aggregate_slide, from the detector's boxes to the returned dictionary
AggregateSlideResult(names, runs) ==
    IF NoBoxes(runs) THEN InsufficientResult
    ELSE LET cell_counts == Tally(names, runs, <<>>)
             total_cells == SumValues(cell_counts)
             rule == ApplyAggregationRules(cell_counts, total_cells)
         IN  [total_cells |-> total_cells,
              cell_counts |-> cell_counts,
              cell_percentages |->
                  [k \in DOMAIN cell_counts |-> Rat(cell_counts[k] * 100, total_cells)],
              slide_diagnosis |-> rule[1],
              diagnosis_confidence |-> rule[2]]

SIdle ==
    /\ class_names = <<>>
    /\ slide_boxes = <<>>
    /\ slide_result = None

\* SlideAggregator(class_names).aggregate_slide(image_path, model)
AggregateSlide ==
    /\ slide_result = None
    /\ \E runs \in SlideInputs :
        /\ slide_boxes' = runs
        /\ slide_result' = AggregateSlideResult(class_names, runs)
    /\ UNCHANGED class_names
    /\ UNCHANGED <<pvars, uvars, bvars, mvars, avars, qvars, tvars, hvars, evars>>

-----------------------------------------------------------------------------
(* MetricsCalculator._calculate_iou *)

\* coordinates of the boxes handed to _calculate_iou lie in 0..IouGrid
IouGrid == 3

Max(a, b) == IF a >= b THEN a ELSE b
Min(a, b) == IF a <= b THEN a ELSE b

\* lines 266-268: union_area
UnionArea_NoSubtract(box1_area, box2_area, inter_area) == box1_area + box2_area
UnionArea(box1_area, box2_area, inter_area) == box1_area + box2_area - inter_area

\* _calculate_iou(box1, box2), boxes as <<x_min, y_min, x_max, y_max>>
CalculateIou(b1, b2) ==
    LET inter_x_min == Max(b1[1], b2[1])
        inter_y_min == Max(b1[2], b2[2])
        inter_x_max == Min(b1[3], b2[3])
        inter_y_max == Min(b1[4], b2[4])
    IN  IF inter_x_max < inter_x_min \/ inter_y_max < inter_y_min THEN Zero
        ELSE LET inter_area == (inter_x_max - inter_x_min) * (inter_y_max - inter_y_min)
                 box1_area == (b1[3] - b1[1]) * (b1[4] - b1[2])
                 box2_area == (b2[3] - b2[1]) * (b2[4] - b2[2])
                 union_area == UnionArea(box1_area, box2_area, inter_area)
             IN  IF union_area > 0 THEN Rat(inter_area, union_area) ELSE Zero

\* boxes on the grid, the degenerate ones (zero width or height) included
GridBoxes ==
    {b \in (0..IouGrid) \X (0..IouGrid) \X (0..IouGrid) \X (0..IouGrid) :
        b[1] <= b[3] /\ b[2] <= b[4]}

UIdle ==
    /\ box1 = <<>>
    /\ box2 = <<>>
    /\ iou = None

\* one call of _calculate_iou
CalculateIouCall ==
    /\ iou = None
    /\ box1 # <<>>
    /\ iou' = CalculateIou(box1, box2)
    /\ UNCHANGED <<box1, box2>>
    /\ UNCHANGED <<pvars, svars, bvars, mvars, avars, qvars, tvars, hvars, evars>>

-----------------------------------------------------------------------------
(* The batches handed to MetricsCalculator *)

\* images of a batch of simple images (each at most one box of each kind)
MaxImages == 2
\* ground-truth boxes and predictions of a single crowded image
MaxGT == 2
MaxPred == 2
\* ground-truth boxes of an image whose cells lie in a row
MaxRow == 5

BoxA == <<0, 0, 2, 2>>
BoxB == <<0, 2, 2, 4>>
BoxC == <<0, 0, 2, 3>>
BoxD == <<0, 0, 2, 1>>

\* [box, cls] of a ground-truth box; class 1 is a second class on BoxA
GtOptions == [box : {BoxA, BoxB, BoxC}, cls : {0}] \cup [box : {BoxA}, cls : {1}]

\* [box, cls, score] of a prediction, scores in hundredths
PredOptions ==
    [box : {BoxA, BoxB, BoxC}, cls : {0}, score : {50, 90}]
    \cup [box : {BoxA}, cls : {1}, score : {90}]

\* the {'boxes', 'classes', 'scores'} dictionary of one image
PredDict(items) ==
    [boxes |-> [j \in 1..Len(items) |-> items[j].box],
     classes |-> [j \in 1..Len(items) |-> items[j].cls],
     scores |-> [j \in 1..Len(items) |-> items[j].score]]

\* the {'boxes', 'classes'} dictionary of one image
GtDict(items) ==
    [boxes |-> [j \in 1..Len(items) |-> items[j].box],
     classes |-> [j \in 1..Len(items) |-> items[j].cls]]

Images(max_gt, max_pred) ==
    {[pred |-> PredDict(p), gt |-> GtDict(g)] :
        p \in SeqsUpTo(PredOptions, max_pred), g \in SeqsUpTo(GtOptions, max_gt)}

\* k-th cell of a row of disjoint cells, and a box that misses every cell
RowBox(k) == <<3 * k, 0, 3 * k + 2, 2>>
MissBox(k) == <<3 * k, 5, 3 * k + 2, 7>>

\* an image with n cells of class 0 in a row and a prediction for the first
\* m of them, with falling scores, each either on its cell or beside it
RowImages ==
    UNION {UNION {
        {[pred |-> PredDict([j \in 1..m |->
                      [box |-> IF hit[j] THEN RowBox(j) ELSE MissBox(j),
                       cls |-> 0, score |-> 90 - j]]),
          gt |-> GtDict([j \in 1..n |-> [box |-> RowBox(j), cls |-> 0]])] :
            hit \in [1..m -> BOOLEAN]} : m \in 0..n} : n \in 1..MaxRow}

\* an image with the overlapping cells BoxA and BoxC of class 0 and two
\* predictions of class 0, each on BoxA or on BoxD: BoxA overlaps both cells
\* (IoU 1 and 2/3), BoxD overlaps BoxA only (IoU 1/2 and 1/3)
TieImages ==
    {[pred |-> PredDict(p), gt |-> GtDict(g)] :
        p \in [1..2 -> [box : {BoxA, BoxD}, cls : {0}, score : {50, 90}]],
        g \in {<<[box |-> BoxA, cls |-> 0], [box |-> BoxC, cls |-> 0]>>,
               <<[box |-> BoxC, cls |-> 0], [box |-> BoxA, cls |-> 0]>>}}

\* the batches: a few simple images, one crowded image, one row image, or
\* one image with overlapping cells
Batches ==
    SeqsUpTo(Images(1, 1), MaxImages)
    \cup {<<im>> : im \in Images(MaxGT, MaxPred)}
    \cup {<<im>> : im \in RowImages}
    \cup {<<im>> : im \in TieImages}

\* predictions and ground_truth of a batch
BatchPredictions(batch) == [j \in 1..Len(batch) |-> batch[j].pred]
BatchGroundTruth(batch) == [j \in 1..Len(batch) |-> batch[j].gt]

\* the IoU thresholds the matcher is called with (0.5 is the default)
IouThresholds == {Rat(1, 2), Rat(3, 4)}

-----------------------------------------------------------------------------
(* MetricsCalculator.calculate_detection_metrics *)

\* the keys the defaultdict counters are read or written at
CounterIds == 0..(Len(ConfigClassNames) - 1)

ZeroCounter == [c \in CounterIds |-> 0]

Incr(counter, c) == [counter EXCEPT ![c] = @ + 1]

\* np.argsort(pred_scores)[::-1]: the indices (0-based) by falling score;
\* the order of equal scores is whatever the sort leaves, so any order
RECURSIVE FallingOrders(_, _)
FallingOrders(scores, S) ==
    IF S = {} THEN {<<>>}
    ELSE LET top == {j \in S : \A l \in S : scores[j + 1] >= scores[l + 1]}
         IN  UNION {{<<j>> \o o : o \in FallingOrders(scores, S \ {j})} : j \in top}

ArgsortReversed(scores) == FallingOrders(scores, 0..(Len(scores) - 1))

\* matched_gt = set(), at the start of every image
ResetMatched_Keep(matched) == matched
ResetMatched(matched) == {}

\* if gt_idx in matched_gt: continue
AlreadyMatched_Never(gt_idx, matched) == FALSE
AlreadyMatched(gt_idx, matched) == gt_idx \in matched

\* if iou > best_iou
Better_OrEqual(new_iou, best_iou) == RatGeq(new_iou, best_iou)
Better(new_iou, best_iou) == RatGt(new_iou, best_iou)

\* lines 68-82 (and 198-210): the scan of the image's ground-truth boxes for
\* the best unmatched box of class cls, from best_iou = 0, best_gt_idx = -1
RECURSIVE ScanGt(_, _, _, _, _, _, _)
ScanGt(pred_box, cls, gt, matched, gt_idx, best_iou, best_gt_idx) ==
    IF gt_idx >= Min(Len(gt.boxes), Len(gt.classes))
    THEN [best_iou |-> best_iou, best_gt_idx |-> best_gt_idx]
    ELSE IF AlreadyMatched(gt_idx, matched) \/ cls # gt.classes[gt_idx + 1]
    THEN ScanGt(pred_box, cls, gt, matched, gt_idx + 1, best_iou, best_gt_idx)
    ELSE LET new_iou == CalculateIou(pred_box, gt.boxes[gt_idx + 1])
         IN  IF Better(new_iou, best_iou)
             THEN ScanGt(pred_box, cls, gt, matched, gt_idx + 1, new_iou, gt_idx)
             ELSE ScanGt(pred_box, cls, gt, matched, gt_idx + 1, best_iou, best_gt_idx)

FindBest(pred_box, cls, gt, matched) == ScanGt(pred_box, cls, gt, matched, 0, Zero, -1)

\* if best_iou >= iou_threshold and best_gt_idx != -1
IsTruePositive(best, threshold) ==
    RatGeq(best.best_iou, threshold) /\ best.best_gt_idx # -1

\* lines 92-94: the false negatives of one image added to fn
FnAfterImage_All(counter, gt_classes, matched) ==
    [c \in DOMAIN counter |->
        counter[c] + Cardinality({g \in 0..(Len(gt_classes) - 1) :
                                    gt_classes[g + 1] = c})]
FnAfterImage(counter, gt_classes, matched) ==
    [c \in DOMAIN counter |->
        counter[c] + Cardinality({g \in 0..(Len(gt_classes) - 1) :
                                    g \notin matched /\ gt_classes[g + 1] = c})]

\* tp_count / (tp_count + fp_count) if (tp_count + fp_count) > 0 else 0
Precision_Unguarded(tp_count, fp_count) ==
    RatDiv(Rat(tp_count, 1), Rat(tp_count + fp_count, 1))
Precision(tp_count, fp_count) ==
    IF tp_count + fp_count > 0
    THEN RatDiv(Rat(tp_count, 1), Rat(tp_count + fp_count, 1)) ELSE Zero

\* tp_count / (tp_count + fn_count) if (tp_count + fn_count) > 0 else 0
Recall(tp_count, fn_count) ==
    IF tp_count + fn_count > 0
    THEN RatDiv(Rat(tp_count, 1), Rat(tp_count + fn_count, 1)) ELSE Zero

\* 2 * (precision * recall) / (precision + recall) if (precision + recall) > 0 else 0
F1(precision, recall) ==
    IF RatGt(RatAdd(precision, recall), Zero)
    THEN RatDiv(RatMul(Rat(2, 1), RatMul(precision, recall)), RatAdd(precision, recall))
    ELSE Zero

\* lines 96-117: the metrics of one class
ClassMetrics(tp_count, fp_count, fn_count) ==
    LET precision == Precision(tp_count, fp_count)
        recall == Recall(tp_count, fn_count)
    IN  [precision |-> precision,
         recall |-> recall,
         f1 |-> F1(precision, recall),
         tp |-> tp_count,
         fp |-> fp_count,
         fn |-> fn_count]

MIdle ==
    /\ m_pc = "idle"
    /\ m_img = 0
    /\ sorted_indices = <<>>
    /\ matched_gt = {}
    /\ tp = ZeroCounter
    /\ fp = ZeroCounter
    /\ fn = ZeroCounter
    /\ metrics = None
    /\ match_log = <<>>
    /\ step_log = <<>>

\* lines 45-48: the call, counters at zero
MetricsCall ==
    /\ m_pc = "idle"
    /\ m_pc' = "image"
    /\ m_img' = 1
    /\ tp' = ZeroCounter
    /\ fp' = ZeroCounter
    /\ fn' = ZeroCounter
    /\ UNCHANGED <<sorted_indices, matched_gt, metrics, match_log, step_log>>
    /\ UNCHANGED <<pvars, svars, uvars, bvars, avars, qvars, tvars, hvars, evars>>

\* lines 50-62: the next (pred, gt) pair of the zip; matched_gt emptied,
\* predictions sorted
MetricsImage ==
    /\ m_pc = "image"
    /\ m_img <= Min(Len(predictions), Len(ground_truth))
    /\ matched_gt' = ResetMatched(matched_gt)
    /\ \E order \in ArgsortReversed(predictions[m_img].scores) :
          sorted_indices' = order
    /\ m_pc' = "preds"
    /\ UNCHANGED <<m_img, tp, fp, fn, metrics, match_log, step_log>>
    /\ UNCHANGED <<pvars, svars, uvars, bvars, avars, qvars, tvars, hvars, evars>>

\* lines 64-89: one prediction of the image
MetricsPrediction ==
    /\ m_pc = "preds"
    /\ sorted_indices # <<>>
    /\ LET idx == Head(sorted_indices)
           pred_box == predictions[m_img].boxes[idx + 1]
           pred_class == predictions[m_img].classes[idx + 1]
           best == FindBest(pred_box, pred_class, ground_truth[m_img], matched_gt)
           hit == IsTruePositive(best, iou_threshold)
       IN  /\ tp' = IF hit THEN Incr(tp, pred_class) ELSE tp
           /\ fp' = IF hit THEN fp ELSE Incr(fp, pred_class)
           /\ matched_gt' = IF hit THEN matched_gt \cup {best.best_gt_idx}
                            ELSE matched_gt
           /\ match_log' = IF hit
                           THEN Append(match_log, <<m_img, idx, best.best_gt_idx>>)
                           ELSE match_log
           /\ step_log' = Append(step_log,
                              [img |-> m_img, idx |-> idx, matched_before |-> matched_gt,
                               best_gt_idx |-> best.best_gt_idx, is_tp |-> hit,
                               matched_after |-> matched_gt'])
    /\ sorted_indices' = Tail(sorted_indices)
    /\ UNCHANGED <<m_pc, m_img, fn, metrics>>
    /\ UNCHANGED <<pvars, svars, uvars, bvars, avars, qvars, tvars, hvars, evars>>

\* lines 91-94: the image's unmatched ground-truth boxes become false negatives
MetricsFalseNegatives ==
    /\ m_pc = "preds"
    /\ sorted_indices = <<>>
    /\ fn' = FnAfterImage(fn, ground_truth[m_img].classes, matched_gt)
    /\ m_img' = m_img + 1
    /\ m_pc' = "image"
    /\ UNCHANGED <<sorted_indices, matched_gt, tp, fp, metrics, match_log, step_log>>
    /\ UNCHANGED <<pvars, svars, uvars, bvars, avars, qvars, tvars, hvars, evars>>

\* lines 96-117: the per-class metrics, returned
MetricsReturn ==
    /\ m_pc = "image"
    /\ m_img > Min(Len(predictions), Len(ground_truth))
    /\ metrics' = [name \in Range(ConfigClassNames) |->
                     LET c == CHOOSE k \in CounterIds : ConfigClassNames[k + 1] = name
                     IN  ClassMetrics(tp[c], fp[c], fn[c])]
    /\ m_pc' = "returned"
    /\ UNCHANGED <<m_img, sorted_indices, matched_gt, tp, fp, fn, match_log, step_log>>
    /\ UNCHANGED <<pvars, svars, uvars, bvars, avars, qvars, tvars, hvars, evars>>

-----------------------------------------------------------------------------
(* MetricsCalculator._calculate_ap_for_class and _calculate_ap_11point *)

\* lines 158-165: the predictions of class cid of every image, in image order
RECURSIVE CollectPredictions(_, _, _)
CollectPredictions(preds, cid, img_idx) ==
    IF img_idx >= Len(preds) THEN <<>>
    ELSE LET pred == preds[img_idx + 1]
             n == Min(Len(pred.boxes), Min(Len(pred.classes), Len(pred.scores)))
             RECURSIVE OfImage(_)
             OfImage(j) ==
                 IF j > n THEN <<>>
                 ELSE IF pred.classes[j] = cid
                 THEN <<[image_id |-> img_idx, box |-> pred.boxes[j],
                         score |-> pred.scores[j]]>> \o OfImage(j + 1)
                 ELSE OfImage(j + 1)
         IN  OfImage(1) \o CollectPredictions(preds, cid, img_idx + 1)

\* list.sort(key=score, reverse=True): stable, equal scores keep their order
RECURSIVE InsertByScore(_, _)
InsertByScore(sorted, x) ==
    IF sorted = <<>> THEN <<x>>
    ELSE IF Head(sorted).score >= x.score
    THEN <<Head(sorted)>> \o InsertByScore(Tail(sorted), x)
    ELSE <<x>> \o sorted

RECURSIVE SortByScore(_)
SortByScore(list) ==
    IF list = <<>> THEN <<>>
    ELSE InsertByScore(SortByScore(SubSeq(list, 1, Len(list) - 1)), list[Len(list)])

\* lines 174-176: the ground-truth boxes of class cid in the whole batch
TotalGt_FirstImage(gts, cid) ==
    Cardinality({g \in 1..Len(gts[1].classes) : gts[1].classes[g] = cid})
TotalGt(gts, cid) ==
    SumSeq([j \in 1..Len(gts) |->
        Cardinality({g \in 1..Len(gts[j].classes) : gts[j].classes[g] = cid})])

\* np.arange(0, 1.1, 0.1): the k-th value is the double k * 0.1, which for
\* k = 3, 6, 7 is one step above the double nearest to k/10
\* (0.30000000000000004, 0.6000000000000001, 0.7000000000000001)
Arange == [k \in 1..11 |-> [tenths |-> k - 1, above |-> (k - 1) \in {3, 6, 7}]]

\* r >= t for a recall r = tp / total_gt (the double nearest to the fraction)
\* and a value t of the arange
RecallAtLeast(r, t) ==
    IF RatEq(r, Rat(t.tenths, 10)) THEN ~t.above ELSE RatGt(r, Rat(t.tenths, 10))

\* max of a non-empty set of fractions
MaxRat(S) == CHOOSE x \in S : \A y \in S : RatLeq(y, x)

\* lines 233-236: the precision taken at one recall level
PrecisionAt(precs, recs, t) ==
    LET reached == {j \in 1..Len(recs) : RecallAtLeast(recs[j], t)}
    IN  IF reached = {} THEN Zero ELSE MaxRat({precs[j] : j \in reached})

\* _calculate_ap_11point
RECURSIVE Ap11From(_, _, _)
Ap11From(precs, recs, k) ==
    IF k > Len(Arange) THEN Zero
    ELSE RatAdd(RatDiv(PrecisionAt(precs, recs, Arange[k]), Rat(11, 1)),
                Ap11From(precs, recs, k + 1))

\* ap += p / 11.0 for the eleven levels, in doubles.  The value is given by
\* its exact fraction and by whether the double lies above 1.0: eleven times
\* the double 1 / 11.0 add up to 1.0000000000000002, and only a sum of eleven
\* precisions of 1.0 comes that near to 1.
CalculateAp11Point(precs, recs) ==
    LET sum == Ap11From(precs, recs, 1)
    IN  [num |-> sum.num, den |-> sum.den, above_one |-> RatEq(sum, One)]

AIdle ==
    /\ a_pc = "idle"
    /\ class_id = -1
    /\ all_predictions = <<>>
    /\ a_k = 0
    /\ total_gt = 0
    /\ ap_tp = 0
    /\ ap_fp = 0
    /\ ap_matched_gt = <<>>
    /\ precisions = <<>>
    /\ recalls = <<>>
    /\ ap = None
    /\ ap_match_log = <<>>

\* lines 155-187: the call for one class, up to the start of the sweep
ApCall ==
    /\ a_pc = "idle"
    /\ \E cid \in CounterIds :
        LET pooled == SortByScore(CollectPredictions(predictions, cid, 0))
            total == TotalGt(ground_truth, cid)
        IN  /\ class_id' = cid
            /\ all_predictions' = pooled
            /\ IF Len(pooled) = 0
               THEN /\ ap' = Zero
                    /\ a_pc' = "returned"
                    /\ UNCHANGED <<a_k, total_gt, ap_matched_gt>>
               ELSE IF total = 0
               THEN /\ ap' = Zero
                    /\ a_pc' = "returned"
                    /\ total_gt' = total
                    /\ UNCHANGED <<a_k, ap_matched_gt>>
               ELSE /\ a_pc' = "sweep"
                    /\ a_k' = 1
                    /\ total_gt' = total
                    /\ ap_matched_gt' = [j \in 1..Len(ground_truth) |-> {}]
                    /\ UNCHANGED ap
    /\ ap_tp' = 0
    /\ ap_fp' = 0
    /\ precisions' = <<>>
    /\ recalls' = <<>>
    /\ UNCHANGED ap_match_log
    /\ UNCHANGED <<pvars, svars, uvars, bvars, mvars, qvars, tvars, hvars, evars>>

\* lines 189-222: one prediction of the sweep
ApSweepStep ==
    /\ a_pc = "sweep"
    /\ a_k <= Len(all_predictions)
    /\ LET pred == all_predictions[a_k]
           img_idx == pred.image_id
           gt == ground_truth[img_idx + 1]
           best == FindBest(pred.box, class_id, gt, ap_matched_gt[img_idx + 1])
           hit == IsTruePositive(best, iou_threshold)
       IN  /\ ap_tp' = IF hit THEN ap_tp + 1 ELSE ap_tp
           /\ ap_fp' = IF hit THEN ap_fp ELSE ap_fp + 1
           /\ ap_matched_gt' =
                 IF hit THEN [ap_matched_gt EXCEPT ![img_idx + 1] = @ \cup {best.best_gt_idx}]
                 ELSE ap_matched_gt
           /\ ap_match_log' =
                 IF hit THEN Append(ap_match_log, <<img_idx + 1, a_k, best.best_gt_idx>>)
                 ELSE ap_match_log
           /\ precisions' = Append(precisions,
                                RatDiv(Rat(ap_tp', 1), Rat(ap_tp' + ap_fp', 1)))
           /\ recalls' = Append(recalls, RatDiv(Rat(ap_tp', 1), Rat(total_gt, 1)))
    /\ a_k' = a_k + 1
    /\ UNCHANGED <<a_pc, class_id, all_predictions, total_gt, ap>>
    /\ UNCHANGED <<pvars, svars, uvars, bvars, mvars, qvars, tvars, hvars, evars>>

\* lines 224-227: the interpolation, returned
ApReturn ==
    /\ a_pc = "sweep"
    /\ a_k > Len(all_predictions)
    /\ ap' = CalculateAp11Point(precisions, recalls)
    /\ a_pc' = "returned"
    /\ UNCHANGED <<class_id, all_predictions, a_k, total_gt, ap_tp, ap_fp,
                   ap_matched_gt, precisions, recalls, ap_match_log>>
    /\ UNCHANGED <<pvars, svars, uvars, bvars, mvars, qvars, tvars, hvars, evars>>

-----------------------------------------------------------------------------
(* MetricsCalculator.calculate_map *)

\* self.num_classes = len(class_names)
num_classes == Len(ConfigClassNames)

\* if total_gt == 0: return 0.0
NoGroundTruth_Never(total) == FALSE
NoGroundTruth(total) == total = 0

\* lines 182-222: the sweep over the pooled predictions from position k on;
\* curve holds the precisions and recalls so far, and raised is set when a
\* division of the sweep raises
RECURSIVE SweepFrom(_, _, _, _, _, _, _, _, _, _)
SweepFrom(pooled, gts, cid, thr, total, k, tp_n, fp_n, matched, curve) ==
    IF k > Len(pooled) \/ curve.raised THEN curve
    ELSE LET pred == pooled[k]
             img == pred.image_id + 1
             best == FindBest(pred.box, cid, gts[img], matched[img])
             hit == IsTruePositive(best, thr)
             tp1 == IF hit THEN tp_n + 1 ELSE tp_n
             fp1 == IF hit THEN fp_n ELSE fp_n + 1
             matched1 == IF hit
                         THEN [matched EXCEPT ![img] = @ \cup {best.best_gt_idx}]
                         ELSE matched
             precision == RatDiv(Rat(tp1, 1), Rat(tp1 + fp1, 1))
             recall == RatDiv(Rat(tp1, 1), Rat(total, 1))
         IN  SweepFrom(pooled, gts, cid, thr, total, k + 1, tp1, fp1, matched1,
                 [precisions |-> Append(curve.precisions, precision),
                  recalls |-> Append(curve.recalls, recall),
                  raised |-> precision.den = 0 \/ recall.den = 0])

\* _calculate_ap_for_class as a function of its arguments: the value it
\* returns, or ZeroDivisionError when the sweep raises
CalculateApForClass(preds, gts, cid, thr) ==
    LET pooled == SortByScore(CollectPredictions(preds, cid, 0))
        total == TotalGt(gts, cid)
    IN  IF Len(pooled) = 0 THEN Zero
        ELSE IF NoGroundTruth(total) THEN Zero
        ELSE LET curve == SweepFrom(pooled, gts, cid, thr, total, 1, 0, 0,
                                    [j \in 1..Len(gts) |-> {}],
                                    [precisions |-> <<>>, recalls |-> <<>>,
                                     raised |-> FALSE])
             IN  IF curve.raised THEN ZeroDivisionError
                 ELSE CalculateAp11Point(curve.precisions, curve.recalls)

RECURSIVE SumRat(_)
SumRat(values) ==
    IF values = <<>> THEN Zero ELSE RatAdd(Head(values), SumRat(Tail(values)))

\* np.mean of a non-empty list
Mean_Sum(values) == SumRat(values)
Mean(values) == RatDiv(SumRat(values), Rat(Len(values), 1))

\* the iou_thresholds argument: left out (None), or a list
MapThresholdArgs ==
    {[given |-> FALSE, list |-> <<>>]}
    \cup [given : {TRUE}, list : {<<>>, <<Rat(1, 2)>>, <<Rat(1, 2), Rat(3, 4)>>}]

\* lines 131-133: the call
MapCall ==
    /\ q_pc = "idle"
    /\ \E arg \in MapThresholdArgs :
          iou_thresholds' = IF ~arg.given THEN <<Rat(1, 2)>> ELSE arg.list
    /\ aps' = <<>>
    /\ q_t' = 1
    /\ q_pc' = "thresholds"
    /\ UNCHANGED <<q_class, class_aps, map_results>>
    /\ UNCHANGED <<pvars, svars, uvars, bvars, mvars, avars, tvars, hvars, evars>>

\* lines 135-136: the next threshold of the outer loop
MapThreshold ==
    /\ q_pc = "thresholds"
    /\ q_t <= Len(iou_thresholds)
    /\ class_aps' = <<>>
    /\ q_class' = 0
    /\ q_pc' = "classes"
    /\ UNCHANGED <<iou_thresholds, q_t, aps, map_results>>
    /\ UNCHANGED <<pvars, svars, uvars, bvars, mvars, avars, tvars, hvars, evars>>

\* lines 138-140: the AP of the next class, appended
MapClass ==
    /\ q_pc = "classes"
    /\ q_class < num_classes
    /\ LET class_ap == CalculateApForClass(predictions, ground_truth, q_class,
                                          iou_thresholds[q_t])
       IN  IF class_ap = ZeroDivisionError
           THEN /\ q_pc' = "raised"
                /\ UNCHANGED <<q_class, class_aps>>
           ELSE /\ class_aps' = Append(class_aps, class_ap)
                /\ q_class' = q_class + 1
                /\ UNCHANGED q_pc
    /\ UNCHANGED <<iou_thresholds, q_t, aps, map_results>>
    /\ UNCHANGED <<pvars, svars, uvars, bvars, mvars, avars, tvars, hvars, evars>>

\* line 142: the mean over the classes, appended to aps
MapMean ==
    /\ q_pc = "classes"
    /\ q_class >= num_classes
    /\ aps' = Append(aps, Mean(class_aps))
    /\ q_t' = q_t + 1
    /\ q_pc' = "thresholds"
    /\ UNCHANGED <<iou_thresholds, q_class, class_aps, map_results>>
    /\ UNCHANGED <<pvars, svars, uvars, bvars, mvars, avars, tvars, hvars, evars>>

\* lines 144-151: the dictionary returned
MapReturn ==
    /\ q_pc = "thresholds"
    /\ q_t > Len(iou_thresholds)
    /\ LET mAP50 == IF Len(aps) > 0 THEN aps[1] ELSE Zero
       IN  map_results' = IF Len(iou_thresholds) > 1
                          THEN [mAP50 |-> mAP50, mAP50_95 |-> Mean(aps)]
                          ELSE [mAP50 |-> mAP50]
    /\ q_pc' = "returned"
    /\ UNCHANGED <<iou_thresholds, q_t, q_class, class_aps, aps>>
    /\ UNCHANGED <<pvars, svars, uvars, bvars, mvars, avars, tvars, hvars, evars>>

-----------------------------------------------------------------------------
(* TTAEvaluator *)

\* largest number of images in the directory handed to evaluate_dataset
MaxTtaImages == 2

\* What the detector does on one image: the number of boxes of the call of
\* predict_regular, the numbers of boxes of the four calls of predict_with_tta
\* (original, flip_horizontal, flip_vertical, rotate_90), the two elapsed
\* times (tenths of a second; a clock may show no time elapsed), and which
\* call raises, if any.
DetectorRuns ==
    [regular : {0, 10},
     views : {<<0, 0, 0, 0>>, <<10, 10, 10, 10>>, <<10, 0, 12, 13>>,
              <<0, 3, 0, 0>>, <<10, 9, 10, 10>>},
     regular_time : {10},
     tta_time : {20, 25, 30, 35, 40},
     fails : {"none"}]
    \cup
    [regular : {0, 10}, views : {<<10, 0, 12, 13>>}, regular_time : {0, 2},
     tta_time : {7}, fails : {"none"}]
    \cup
    [regular : {0}, views : {<<0, 0, 0, 0>>}, regular_time : {0}, tta_time : {0},
     fails : {"regular", "tta"}]

\* predict_regular: the fields compare_single_image reads
PredictRegular(run) == [boxes |-> run.regular, time |-> run.regular_time]

\* lines 104-113: total_boxes over all_results; a result without boxes adds nothing
RECURSIVE TotalBoxes(_)
TotalBoxes(views) ==
    IF views = <<>> THEN 0
    ELSE (IF Head(views) > 0 THEN Head(views) ELSE 0) + TotalBoxes(Tail(views))

\* num_augs = len(augmentations)
NumAugs_NonEmpty(views) == Cardinality({j \in 1..Len(views) : views[j] > 0})
NumAugs(views) == Len(views)

\* predict_with_tta: the fields compare_single_image reads
PredictWithTta(run) ==
    [avg_boxes |-> RatDiv(Rat(TotalBoxes(run.views), 1), Rat(NumAugs(run.views), 1)),
     time |-> run.tta_time,
     num_augmentations |-> NumAugs(run.views)]

\* abs(tta["avg_boxes"] - regular["boxes"])
DetectionDiff_Signed(avg_boxes, regular_boxes) == RatSub(avg_boxes, Rat(regular_boxes, 1))
DetectionDiff(avg_boxes, regular_boxes) == RatAbs(RatSub(avg_boxes, Rat(regular_boxes, 1)))

\* lines 141-163: the comparison dictionary of one image
CompareSingleImage(name, run) ==
    LET regular == PredictRegular(run)
        tta == PredictWithTta(run)
        time_ratio == IF regular.time > 0
                      THEN RatDiv(Rat(tta.time, 1), Rat(regular.time, 1)) ELSE Zero
        detection_diff == DetectionDiff(tta.avg_boxes, regular.boxes)
        detection_change_pct ==
            IF regular.boxes > 0
            THEN RatMul(RatDiv(detection_diff, Rat(regular.boxes, 1)), Rat(100, 1))
            ELSE Zero
    IN  [image |-> name,
         regular_boxes |-> regular.boxes,
         regular_time |-> regular.time,
         tta_boxes |-> tta.avg_boxes,
         tta_time |-> tta.time,
         time_ratio |-> time_ratio,
         detection_diff |-> detection_diff,
         detection_change_pct |-> detection_change_pct]

\* avg_slowdown > 3.5
VerySlow_Inclusive(avg_slowdown) == RatGeq(avg_slowdown, Rat(35, 10))
VerySlow(avg_slowdown) == RatGt(avg_slowdown, Rat(35, 10))

\* avg_slowdown > 2.5
Slow(avg_slowdown) == RatGt(avg_slowdown, Rat(25, 10))

\* lines 235-267: the recommendation (the reasoning texts are left out)
Recommendation(avg_slowdown) ==
    IF VerySlow(avg_slowdown)
    THEN [speed_assessment |-> "VERY SLOW", recommendation |-> "NOT RECOMMENDED"]
    ELSE IF Slow(avg_slowdown)
    THEN [speed_assessment |-> "SLOW", recommendation |-> "USE ONLY FOR BATCH PROCESSING"]
    ELSE [speed_assessment |-> "MODERATE", recommendation |-> "CONSIDER FOR CRITICAL CASES"]

\* lines 225-271: the summary of a non-empty list of comparisons
SummaryOf(rs) ==
    LET Column(f) == [j \in 1..Len(rs) |-> rs[j][f]]
        avg_time_ratio == Mean(Column("time_ratio"))
    IN  [num_images |-> Len(rs),
         total_regular_time |-> SumSeq(Column("regular_time")),
         total_tta_time |-> SumSeq(Column("tta_time")),
         avg_time_ratio |-> avg_time_ratio,
         total_regular_boxes |-> SumSeq(Column("regular_boxes")),
         total_tta_boxes |-> SumRat(Column("tta_boxes")),
         avg_detection_change |-> Mean(Column("detection_change_pct")),
         recommendation |-> Recommendation(avg_time_ratio)]

\* lines 185-194: the call; the images of the directory, at most max_images
EvaluateDatasetCall ==
    /\ t_pc = "idle"
    /\ image_paths' \in SeqsUpTo(DetectorRuns, MaxTtaImages)
    /\ verbose' \in BOOLEAN
    /\ t_pc' = IF Len(image_paths') > 0 /\ verbose' THEN "warmup" ELSE "loop"
    /\ t_i' = 1
    /\ results' = <<>>
    /\ UNCHANGED summary
    /\ UNCHANGED <<pvars, svars, uvars, bvars, mvars, avars, qvars, hvars, evars>>

\* lines 196-199: the warm-up call of the detector, which may raise
Warmup ==
    /\ t_pc = "warmup"
    /\ \E raises \in BOOLEAN : t_pc' = IF raises THEN "raised" ELSE "loop"
    /\ UNCHANGED <<verbose, image_paths, t_i, results, summary>>
    /\ UNCHANGED <<pvars, svars, uvars, bvars, mvars, avars, qvars, hvars, evars>>

\* lines 202-207: one image of the loop.  A detector call that raises is
\* caught nowhere: the exception leaves evaluate_dataset, which returns nothing.
CompareImage ==
    /\ t_pc = "loop"
    /\ t_i <= Len(image_paths)
    /\ IF image_paths[t_i].fails # "none"
       THEN /\ t_pc' = "raised"
            /\ UNCHANGED <<t_i, results>>
       ELSE /\ results' = Append(results, CompareSingleImage(t_i, image_paths[t_i]))
            /\ t_i' = t_i + 1
            /\ UNCHANGED t_pc
    /\ UNCHANGED <<verbose, image_paths, summary>>
    /\ UNCHANGED <<pvars, svars, uvars, bvars, mvars, avars, qvars, hvars, evars>>

\* line 209
EvaluateDatasetReturn ==
    /\ t_pc = "loop"
    /\ t_i > Len(image_paths)
    /\ t_pc' = "returned"
    /\ UNCHANGED <<verbose, image_paths, t_i, results, summary>>
    /\ UNCHANGED <<pvars, svars, uvars, bvars, mvars, avars, qvars, hvars, evars>>

\* generate_summary(results); with no result the DataFrame has no column and
\* df["regular_time"] raises KeyError
GenerateSummary ==
    /\ t_pc = "returned"
    /\ IF results = <<>>
       THEN /\ t_pc' = "KeyError"
            /\ UNCHANGED summary
       ELSE /\ summary' = SummaryOf(results)
            /\ t_pc' = "summarised"
    /\ UNCHANGED <<verbose, image_paths, t_i, results>>
    /\ UNCHANGED <<pvars, svars, uvars, bvars, mvars, avars, qvars, hvars, evars>>

-----------------------------------------------------------------------------
(* Specifications: one per component *)

QIdle ==
    /\ q_pc = "idle"
    /\ iou_thresholds = <<>>
    /\ q_t = 0
    /\ q_class = -1
    /\ class_aps = <<>>
    /\ aps = <<>>
    /\ map_results = None

TIdle ==
    /\ t_pc = "idle"
    /\ verbose = FALSE
    /\ image_paths = <<>>
    /\ t_i = 0
    /\ results = <<>>
    /\ summary = None

HIdle ==
    /\ h_pc = "init"
    /\ model_inference = "None"
    /\ req = None
    /\ inference = "not_run"
    /\ resp = None

EIdle ==
    /\ e_pc = "idle"
    /\ e_image_paths = <<>>
    /\ e_i = 0
    /\ e_predictions = <<>>
    /\ e_results = None

BIdle ==
    /\ predictions = <<>>
    /\ ground_truth = <<>>
    /\ iou_threshold = None

\* ImprovedPredictor.predict on one image
InitPredict == PIdle /\ SIdle /\ UIdle /\ BIdle /\ MIdle /\ AIdle /\ QIdle /\ TIdle /\ HIdle /\ EIdle
NextPredict == PredictCall \/ PredictBox \/ PredictReturn
SpecPredict == InitPredict /\ [][NextPredict]_vars

\* SlideAggregator(class_names).aggregate_slide on one slide
InitSlide ==
    /\ class_names \in {ConfigClassNames, ExperimentClassNames}
    /\ slide_boxes = <<>>
    /\ slide_result = None
    /\ PIdle /\ UIdle /\ BIdle /\ MIdle /\ AIdle /\ QIdle /\ TIdle /\ HIdle /\ EIdle
NextSlide == AggregateSlide
SpecSlide == InitSlide /\ [][NextSlide]_vars

\* _calculate_iou on a pair of boxes
InitIou ==
    /\ box1 \in GridBoxes
    /\ box2 \in GridBoxes
    /\ iou = None
    /\ PIdle /\ SIdle /\ BIdle /\ MIdle /\ AIdle /\ QIdle /\ TIdle /\ HIdle /\ EIdle
NextIou == CalculateIouCall
SpecIou == InitIou /\ [][NextIou]_vars

\* a batch and an IoU threshold handed to the MetricsCalculator
InitBatch ==
    /\ \E batch \in Batches :
        /\ predictions = BatchPredictions(batch)
        /\ ground_truth = BatchGroundTruth(batch)
    /\ iou_threshold \in IouThresholds
    /\ PIdle /\ SIdle /\ UIdle /\ MIdle /\ AIdle /\ QIdle /\ TIdle /\ HIdle /\ EIdle

\* calculate_detection_metrics on a batch
NextMetrics ==
    \/ MetricsCall
    \/ MetricsImage
    \/ MetricsPrediction
    \/ MetricsFalseNegatives
    \/ MetricsReturn
SpecMetrics == InitBatch /\ [][NextMetrics]_vars

\* _calculate_ap_for_class on a batch
NextAp == ApCall \/ ApSweepStep \/ ApReturn
SpecAp == InitBatch /\ [][NextAp]_vars

\* calculate_map on a batch
InitMap ==
    /\ \E batch \in Batches :
        /\ predictions = BatchPredictions(batch)
        /\ ground_truth = BatchGroundTruth(batch)
    /\ iou_threshold = None
    /\ PIdle /\ SIdle /\ UIdle /\ MIdle /\ AIdle /\ QIdle /\ TIdle /\ HIdle /\ EIdle
NextMap == MapCall \/ MapThreshold \/ MapClass \/ MapMean \/ MapReturn
SpecMap == InitMap /\ [][NextMap]_vars

\* evaluate_dataset on a directory of images, then generate_summary
InitTta == PIdle /\ SIdle /\ UIdle /\ BIdle /\ MIdle /\ AIdle /\ QIdle /\ TIdle /\ HIdle /\ EIdle
NextTta ==
    \/ EvaluateDatasetCall
    \/ Warmup
    \/ CompareImage
    \/ EvaluateDatasetReturn
    \/ GenerateSummary
SpecTta == InitTta /\ [][NextTta]_vars

\* an evaluation run: the detection metrics of a batch, then the AP of a class
NextEvaluate == NextMetrics \/ (m_pc = "returned" /\ NextAp)
SpecEvaluate == InitBatch /\ [][NextEvaluate]_vars

-----------------------------------------------------------------------------
(* Claims *)

\* objectness of the raw boxes 1..n that pass the objectness gate, in order
RECURSIVE GatedObjectness(_, _)
GatedObjectness(raw, n) ==
    IF n = 0 THEN <<>>
    ELSE IF raw[n].conf >= objectness_threshold
    THEN Append(GatedObjectness(raw, n - 1), raw[n].conf)
    ELSE GatedObjectness(raw, n - 1)

DecoupledDetection(d) ==
    /\ d.passes_threshold <=> d.confidence.num * 100 >= d.threshold_used * d.confidence.den
    /\ d.objectness >= objectness_threshold

\* C1: every detection record has passes_threshold true exactly when its
\* confidence is at least threshold_used, and has objectness at least the
\* objectness threshold; the detections are exactly the raw boxes at or above
\* the objectness threshold, so a box below it is in no record and is not
\* counted in 'accepted'.
C1_Decoupling ==
    /\ \A j \in 1..Len(detections) : DecoupledDetection(detections[j])
    /\ p_pc = "loop" =>
          [j \in 1..Len(detections) |-> detections[j].objectness]
              = GatedObjectness(boxes, p_i - 1)
    /\ p_pc = "returned" =>
          /\ p_ret.detections = detections
          /\ [j \in 1..Len(detections) |-> detections[j].objectness]
                = GatedObjectness(boxes, Len(boxes))
          /\ p_ret.accepted = Cardinality({j \in 1..Len(detections) :
                 /\ detections[j].objectness >= objectness_threshold
                 /\ detections[j].confidence.num * 100
                        >= detections[j].threshold_used * detections[j].confidence.den})

\* a returned prediction with a box below the gate dropped, and a box accepted
C1_Witness ==
    /\ p_pc = "returned"
    /\ \E j \in 1..Len(boxes) : boxes[j].conf < objectness_threshold
    /\ p_ret.accepted = 1
    /\ Len(p_ret.detections) = 1

\* cells of class id cid among the boxes handed to the aggregator
CellsOfClass(runs, cid) ==
    SumSeq([j \in 1..Len(runs) |-> IF runs[j].cls = cid THEN runs[j].n ELSE 0])

\* the share of class id cid, in percent
ShareOfClass(runs, cid) == Rat(CellsOfClass(runs, cid) * 100, NumBoxes(runs))

\* count > min_count or percentage > min_pct, all strict
CascadeRule(runs, cid, min_count, min_pct) ==
    \/ CellsOfClass(runs, cid) > min_count
    \/ CellsOfClass(runs, cid) * 100 > min_pct * NumBoxes(runs)

\* class id of the first matching rule, top to bottom, class ids in the
\* order NILM 0, ASC-US 1, ASC-H 2, LSIL 3, HSIL 4, SCC 5
CascadeClass(runs) ==
    IF CellsOfClass(runs, 5) > 0 THEN 5
    ELSE IF CascadeRule(runs, 4, 10, 1) THEN 4
    ELSE IF CascadeRule(runs, 2, 15, 2) THEN 2
    ELSE IF CascadeRule(runs, 3, 5, 2) THEN 3
    ELSE IF CascadeRule(runs, 1, 10, 3) THEN 1
    ELSE 0

\* C2: for every slide with total_cells > 0 the diagnosis is the category of
\* the first matching rule of the cascade (SCC count > 0; HSIL count > 10 or
\* share > 1; ASC-H count > 15 or share > 2; LSIL count > 5 or share > 2;
\* ASC-US count > 10 or share > 3; else NILM) and the confidence is that
\* category's percentage of the slide's cells.
C2_CascadeAndConfidence ==
    (slide_result # None /\ slide_result.total_cells > 0) =>
        LET c == CascadeClass(slide_boxes)
        IN  /\ slide_result.slide_diagnosis = ConfigClassNames[c + 1]
            /\ RatEq(slide_result.diagnosis_confidence, ShareOfClass(slide_boxes, c))

\* C3: a slide with at least one SCC cell is diagnosed SCC, whatever the
\* other counts and however small the SCC share.
C3_AnySccIsScc ==
    slide_result # None =>
        /\ CountGet(slide_result.cell_counts, "SCC") > 0 =>
               slide_result.slide_diagnosis = "SCC"
        /\ CellsOfClass(slide_boxes, 5) > 0 => slide_result.slide_diagnosis = "SCC"

\* one SCC cell under 1% of a slide on which the HSIL, ASC-H, LSIL and ASC-US
\* rules match too
C3_Witness ==
    /\ slide_result # None
    /\ slide_result.slide_diagnosis = "SCC"
    /\ CellsOfClass(slide_boxes, 5) = 1
    /\ NumBoxes(slide_boxes) > 100
    /\ CascadeRule(slide_boxes, 4, 10, 1)
    /\ CascadeRule(slide_boxes, 2, 15, 2)
    /\ CascadeRule(slide_boxes, 3, 5, 2)
    /\ CascadeRule(slide_boxes, 1, 10, 3)

Diagnoses == {"SCC", "HSIL", "ASC-H", "LSIL", "ASC-US", "NILM", "INSUFFICIENT"}

\* C4: in every result of aggregate_slide the cell counts sum to total_cells
\* (the number of boxes), the diagnosis is one of the six categories or
\* INSUFFICIENT, and it is INSUFFICIENT exactly when total_cells is 0.
C4_SlideResultShape ==
    slide_result # None =>
        /\ SumValues(slide_result.cell_counts) = slide_result.total_cells
        /\ slide_result.total_cells = NumBoxes(slide_boxes)
        /\ slide_result.slide_diagnosis \in Diagnoses
        /\ slide_result.slide_diagnosis = "INSUFFICIENT" <=> slide_result.total_cells = 0

\* a slide with cells of a class id outside class_names, counted in the total
C4_Witness ==
    /\ slide_result # None
    /\ CountGet(slide_result.cell_counts, "Unknown_6") = 1
    /\ slide_result.total_cells = 1
    /\ slide_result.slide_diagnosis = "NILM"

\* no ground-truth box and no prediction occurs in two entries
\* <<image, prediction, gt index>> of a log of matches
OneToOne(log) ==
    \A j, l \in 1..Len(log) :
        j # l => /\ <<log[j][1], log[j][3]>> # <<log[l][1], log[l][3]>>
                 /\ <<log[j][1], log[j][2]>> # <<log[l][1], log[l][2]>>

\* C5: in both matching passes, after any number of prediction steps, every
\* ground-truth box has been matched by at most one prediction and every
\* prediction to at most one ground-truth box, and a box already matched is
\* not picked again.
C5_OneToOneMatching ==
    /\ OneToOne(match_log)
    /\ OneToOne(ap_match_log)
    /\ \A j \in 1..Len(step_log) :
          /\ step_log[j].best_gt_idx \notin step_log[j].matched_before
          /\ step_log[j].matched_before \subseteq step_log[j].matched_after
    /\ m_pc = "preds" =>
          matched_gt = {match_log[j][3] : j \in {l \in 1..Len(match_log) :
                                                    match_log[l][1] = m_img}}
    /\ a_pc \in {"sweep", "returned"} =>
          \A im \in 1..Len(ap_matched_gt) :
              ap_matched_gt[im] = {ap_match_log[j][3] : j \in {l \in 1..Len(ap_match_log) :
                                                                 ap_match_log[l][1] = im}}

\* IoU of prediction idx of image im with ground-truth box g (0-based)
PairIou(im, idx, g) ==
    CalculateIou(predictions[im].boxes[idx + 1], ground_truth[im].boxes[g + 1])

\* in both passes a second prediction lay on a ground-truth box already
\* matched and was counted as a false positive
C5_Witness ==
    /\ a_pc = "returned"
    /\ Len(ap_match_log) = 1
    /\ ap_fp = 1
    /\ Len(match_log) = 1
    /\ \E j \in 1..Len(step_log) :
          LET st == step_log[j]
          IN  /\ ~st.is_tp
              /\ \E g \in st.matched_before :
                    /\ ground_truth[st.img].classes[g + 1]
                           = predictions[st.img].classes[st.idx + 1]
                    /\ RatGeq(PairIou(st.img, st.idx, g), iou_threshold)

\* the unmatched ground-truth boxes of the prediction's class
Candidates(st) ==
    {g \in 0..(Len(ground_truth[st.img].boxes) - 1) :
        /\ g \notin st.matched_before
        /\ ground_truth[st.img].classes[g + 1] = predictions[st.img].classes[st.idx + 1]}

\* the candidate of highest IoU, the lowest index among equals
BestCandidate(st) ==
    CHOOSE g \in Candidates(st) :
        \A h \in Candidates(st) :
            \/ RatGt(PairIou(st.img, st.idx, g), PairIou(st.img, st.idx, h))
            \/ RatEq(PairIou(st.img, st.idx, g), PairIou(st.img, st.idx, h)) /\ g <= h

GtOfClass(c) ==
    SumSeq([im \in 1..Len(ground_truth) |->
        Cardinality({g \in 1..Len(ground_truth[im].classes) :
                        ground_truth[im].classes[g] = c})])
PredsOfClass(c) ==
    SumSeq([im \in 1..Len(predictions) |->
        Cardinality({j \in 1..Len(predictions[im].classes) :
                        predictions[im].classes[j] = c})])

\* ground-truth boxes of class c that no prediction matched
UnmatchedOfClass(c) ==
    SumSeq([im \in 1..Len(ground_truth) |->
        Cardinality({g \in 1..Len(ground_truth[im].classes) :
            /\ ground_truth[im].classes[g] = c
            /\ \A j \in 1..Len(match_log) : match_log[j][1] # im \/ match_log[j][3] # g - 1})])

\* C7: for every class of class_names, after calculate_detection_metrics fn is
\* the number of ground-truth boxes of the class that no prediction matched,
\* tp + fn the number of ground-truth boxes of the class and tp + fp the
\* number of predictions of the class.
C7_CountsAddUp ==
    m_pc = "returned" =>
        \A c \in CounterIds :
            LET m == metrics[ConfigClassNames[c + 1]]
            IN  /\ m.fn = UnmatchedOfClass(c)
                /\ m.tp + m.fn = GtOfClass(c)
                /\ m.tp + m.fp = PredsOfClass(c)

\* a class with a true positive, a false positive and a false negative
C7_Witness ==
    /\ m_pc = "returned"
    /\ metrics["NILM"].tp >= 1
    /\ metrics["NILM"].fp >= 1
    /\ metrics["NILM"].fn >= 1

WellFormed(b) == b[1] < b[3] /\ b[2] < b[4]

\* the rectangles share no area (they may share an edge or a corner)
NoOverlap(a, b) == a[3] <= b[1] \/ b[3] <= a[1] \/ a[4] <= b[2] \/ b[4] <= a[2]

\* C8: for boxes with x1 < x2 and y1 < y2, _calculate_iou(a, b) equals
\* _calculate_iou(b, a), _calculate_iou(a, a) is 1, and the IoU of boxes that
\* do not overlap (or only share an edge or corner) is 0; it is never negative.
C8_IouLaws ==
    (iou # None /\ WellFormed(box1) /\ WellFormed(box2)) =>
        /\ iou = CalculateIou(box2, box1)
        /\ box1 = box2 => iou = One
        /\ NoOverlap(box1, box2) => iou = Zero
        /\ iou.den > 0 /\ iou.num >= 0

\* two boxes that share an edge only
C8_Witness ==
    /\ iou # None
    /\ WellFormed(box1) /\ WellFormed(box2)
    /\ box1[3] = box2[1]
    /\ box1[2] = box2[2] /\ box1[4] = box2[4]
    /\ iou = Zero

\* C9: precision is tp / (tp + fp), or 0 when tp + fp = 0; recall is
\* tp / (tp + fn), or 0 when tp + fn = 0; f1 is 2PR / (P + R), or 0 when
\* P + R = 0; no batch makes the computation divide by zero.
C9_PrecisionRecallF1 ==
    m_pc = "returned" =>
        \A name \in DOMAIN metrics :
            LET m == metrics[name]
            IN  /\ m.precision.den > 0 /\ m.recall.den > 0 /\ m.f1.den > 0
                /\ IF m.tp + m.fp = 0 THEN m.precision.num = 0
                   ELSE m.precision.num * (m.tp + m.fp) = m.tp * m.precision.den
                /\ IF m.tp + m.fn = 0 THEN m.recall.num = 0
                   ELSE m.recall.num * (m.tp + m.fn) = m.tp * m.recall.den
                /\ IF m.precision.num = 0 /\ m.recall.num = 0 THEN m.f1.num = 0
                   ELSE m.f1.num * (m.precision.num * m.recall.den
                                        + m.recall.num * m.precision.den)
                            = 2 * m.precision.num * m.recall.num * m.f1.den

\* a class without predictions but with ground truth, and a class with true
\* and false positives
C9_Witness ==
    /\ m_pc = "returned"
    /\ \E name \in DOMAIN metrics :
          metrics[name].tp + metrics[name].fp = 0 /\ metrics[name].fn > 0
    /\ \E name \in DOMAIN metrics : metrics[name].tp > 0 /\ metrics[name].fp > 0

\* the largest precision among the sweep points of recall >= k/10, or 0
InterpolatedPrecision(k) ==
    LET reached == {j \in 1..Len(recalls) : RatGeq(recalls[j], Rat(k, 10))}
    IN  IF reached = {} THEN Zero ELSE MaxRat({precisions[j] : j \in reached})

RECURSIVE SumInterpolated(_)
SumInterpolated(k) ==
    IF k > 10 THEN Zero ELSE RatAdd(InterpolatedPrecision(k), SumInterpolated(k + 1))

\* C10: AP is the mean over the recall levels 0.0, 0.1, ..., 1.0 of the
\* largest precision among the sweep points whose recall is at least the
\* level (0 when none is); the sweep points come from the class's predictions
\* of the whole batch by falling confidence, and recall divides by the
\* class's ground-truth count of the whole batch.
C10_ElevenPointAp ==
    /\ a_pc \in {"sweep", "returned"} =>
          /\ Len(all_predictions) > 0 => total_gt = GtOfClass(class_id)
          /\ Len(all_predictions) = PredsOfClass(class_id)
          /\ \A j \in 1..(Len(all_predictions) - 1) :
                all_predictions[j].score >= all_predictions[j + 1].score
          /\ \A j \in 1..Len(recalls) :
                RatEq(RatMul(recalls[j], Rat(total_gt, 1)), RatMul(precisions[j], Rat(j, 1)))
    /\ (a_pc = "returned" /\ Len(all_predictions) > 0 /\ total_gt > 0) =>
          RatEq(ap, RatDiv(SumInterpolated(0), Rat(11, 1)))

\* the double held by x lies above 1.0
AboveOne(x) == "above_one" \in DOMAIN x /\ x.above_one

\* C11: whatever the class, the batch and the IoU threshold, the AP that
\* _calculate_ap_for_class returns lies between 0 and 1; this covers the two
\* early returns (no prediction, no ground truth) and the interpolated value.
C11_ApBounded ==
    a_pc = "returned" =>
        /\ ap # None
        /\ ap.den > 0
        /\ RatLeq(Zero, ap)
        /\ RatLeq(ap, One)
        /\ ~AboveOne(ap)

\* the AP the sweep of the state machine returns is the AP calculate_map uses
ApAgrees ==
    a_pc = "returned" =>
        ap = CalculateApForClass(predictions, ground_truth, class_id, iou_threshold)

\* the classes with at least one ground-truth box in the batch
ClassesWithGt == {c \in CounterIds : TotalGt(ground_truth, c) > 0}

\* the sum of the APs that class_aps holds for the classes of S
RECURSIVE SumApOver(_)
SumApOver(S) ==
    IF S = {} THEN Zero
    ELSE LET c == CHOOSE x \in S : TRUE
         IN  RatAdd(class_aps[c + 1], SumApOver(S \ {c}))

\* a mean has been taken and class_aps still holds the APs it was taken over
MeanTaken == q_pc \in {"thresholds", "returned"} /\ Len(aps) > 0

\* C12 as stated: the mAP of a threshold is the mean of the APs over exactly
\* the classes that have at least one ground-truth box in the batch, and
\* mAP50 of the returned dictionary is that mean for the first threshold.
C12_MeanOverClassesWithGt ==
    (MeanTaken /\ ClassesWithGt # {}) =>
        /\ RatEq(RatMul(aps[Len(aps)], Rat(Cardinality(ClassesWithGt), 1)),
                 SumApOver(ClassesWithGt))
        /\ q_pc = "returned" => map_results.mAP50 = aps[1]

\* C12 as amended: the mAP of a threshold is the mean of the APs over all
\* num_classes classes, a class without ground truth counting with its AP
\* of 0, and mAP50 of the returned dictionary is that mean for the first
\* threshold.
C12_MeanOverAllClasses ==
    MeanTaken =>
        /\ Len(class_aps) = num_classes
        /\ RatEq(RatMul(aps[Len(aps)], Rat(num_classes, 1)), SumApOver(CounterIds))
        /\ q_pc = "returned" => map_results.mAP50 = aps[1]

\* some classes have ground truth, others none, and the mAP is not 0
C12_Witness ==
    /\ q_pc = "returned"
    /\ Len(aps) > 0
    /\ ClassesWithGt # {}
    /\ ClassesWithGt # CounterIds
    /\ RatGt(map_results.mAP50, Zero)

\* the classes that have predictions but no ground-truth box in the batch
ClassesPredictedWithoutGt ==
    {c \in CounterIds : /\ TotalGt(ground_truth, c) = 0
                        /\ Len(CollectPredictions(predictions, c, 0)) > 0}

\* C13: a class with predictions but no ground truth gets AP = 0, nothing
\* raises, and its 0 is a term of the mean: the mean times the number of all
\* classes is the sum of the APs of the other classes.
C13_ZeroGtClassScoresZero ==
    /\ q_pc # "raised"
    /\ \A c \in ClassesPredictedWithoutGt :
          /\ (MeanTaken \/ (q_pc = "classes" /\ q_class > c)) => class_aps[c + 1] = Zero
          /\ MeanTaken =>
                RatEq(RatMul(aps[Len(aps)], Rat(num_classes, 1)),
                      SumApOver(CounterIds \ {c}))

\* a batch with such a class and another class that scores
C13_Witness ==
    /\ q_pc = "returned"
    /\ ClassesPredictedWithoutGt # {}
    /\ Len(aps) > 1
    /\ RatGt(aps[2], Zero)

\* C14: a detection whose class name has no entry in the threshold table is
\* decided against 0.30, recorded as threshold_used; and no box that passed
\* the objectness gate goes without a detection, so a missing entry neither
\* raises nor ends the image early.
C14_DefaultThreshold ==
    /\ \A j \in 1..Len(detections) :
          detections[j].class_name \notin DOMAIN per_class_thresholds =>
              /\ detections[j].threshold_used = 30
              /\ detections[j].passes_threshold
                    = RatGeq(detections[j].confidence, Rat(30, 100))
    /\ p_pc = "loop" =>
          Len(detections) = Len(GatedObjectness(boxes, p_i - 1))
    /\ (p_pc = "returned" /\ boxes # <<>>) =>
          /\ p_ret.detections = detections
          /\ Len(detections) = Len(GatedObjectness(boxes, Len(boxes)))

\* a class without an entry is accepted, and the box after it is still decided
C14_Witness ==
    /\ p_pc = "returned"
    /\ Len(detections) = 2
    /\ detections[1].class_name \notin DOMAIN per_class_thresholds
    /\ detections[1].passes_threshold
    /\ detections[2].class_name \in DOMAIN per_class_thresholds

\* the boxes among raw[1..n] that pass the objectness gate and carry one
\* class score per known class
ShapedAndGated(raw, n) ==
    {j \in 1..n : /\ raw[j].conf >= objectness_threshold
                  /\ Len(raw[j].data) = Len(ConfigClassNames)}

\* C15: a box whose class-score vector has not one entry per known class is
\* refused (ShapeError) and never turned into a detection, so the detections
\* are at most as many as the gated boxes with a vector of the right length.
C15_ShapeErrorOnMismatch ==
    p_pc \in {"loop", "returned"} =>
        Len(detections) <= Cardinality(ShapedAndGated(boxes, p_i - 1))

\* C16: a detector call that raises ends the evaluation of its image only:
\* the run itself never ends in the exception, and when it returns every
\* image of the directory has its per-image entry or status.
C16_FailureScopedToImage ==
    /\ t_pc # "raised"
    /\ t_pc = "returned" => Len(results) = Len(image_paths)

\* C17: in every comparison, regular_boxes is the number of boxes of the run
\* on the untransformed image alone, and tta_boxes is the arithmetic mean of
\* the numbers of boxes of all four runs (original, horizontal flip, vertical
\* flip, rotation), a run without boxes counting as 0.
C17_RegularAndAugmentedCounts ==
    \A j \in 1..Len(results) :
        LET run == image_paths[j]
        IN  /\ results[j].regular_boxes = run.regular
            /\ Len(run.views) = 4
            /\ results[j].tta_boxes.den > 0
            /\ RatEq(RatMul(results[j].tta_boxes, Rat(4, 1)),
                     Rat(run.views[1] + run.views[2] + run.views[3] + run.views[4], 1))

\* an image on which one of the four runs finds nothing: mean 35/4
C17_Witness ==
    \E j \in 1..Len(results) :
        /\ image_paths[j].views = <<10, 0, 12, 13>>
        /\ results[j].regular_boxes = 10
        /\ RatEq(results[j].tta_boxes, Rat(35, 4))

\* C18: in every comparison, time_ratio is tta_time / regular_time (0 where
\* the clock showed no regular time), detection_diff is the absolute value
\* of tta_boxes - regular_boxes, detection_change_pct is detection_diff /
\* regular_boxes * 100 and 0 when regular_boxes is 0; no division by zero.
C18_TtaMetrics ==
    \A j \in 1..Len(results) :
        LET r == results[j]
            regular_boxes == Rat(r.regular_boxes, 1)
        IN  /\ r.time_ratio.den > 0
            /\ r.detection_diff.den > 0
            /\ r.detection_change_pct.den > 0
            /\ r.regular_time > 0 =>
                  RatEq(RatMul(r.time_ratio, Rat(r.regular_time, 1)), Rat(r.tta_time, 1))
            /\ r.regular_time = 0 => r.time_ratio = Zero
            /\ RatGeq(r.detection_diff, Zero)
            /\ RatEq(r.detection_diff,
                     IF RatGeq(r.tta_boxes, regular_boxes)
                     THEN RatSub(r.tta_boxes, regular_boxes)
                     ELSE RatSub(regular_boxes, r.tta_boxes))
            /\ r.regular_boxes = 0 => r.detection_change_pct = Zero
            /\ r.regular_boxes > 0 =>
                  RatEq(RatMul(r.detection_change_pct, regular_boxes),
                        RatMul(r.detection_diff, Rat(100, 1)))

\* one image with no regular box but boxes under augmentation, and one where
\* the augmented mean lies below the regular count
C18_Witness ==
    /\ Len(results) = 2
    /\ results[1].regular_boxes = 0
    /\ RatGt(results[1].detection_diff, Zero)
    /\ RatLt(results[2].tta_boxes, Rat(results[2].regular_boxes, 1))
    /\ RatGt(results[2].detection_change_pct, Zero)

\* C19: the recommendation of the summary is decided by the (mean) time
\* ratio alone and is one of three: above 3.5 not recommended; above 2.5 and
\* up to 3.5 batch processing only; up to 2.5 consider for critical cases.
\* A single image of regular time 1.0 s and TTA time 4.0 s is not recommended.
C19_Recommendation ==
    t_pc = "summarised" =>
        LET r == summary.avg_time_ratio
            rec == summary.recommendation.recommendation
        IN  /\ r.den > 0
            /\ RatEq(RatMul(r, Rat(Len(results), 1)),
                     SumRat([j \in 1..Len(results) |-> results[j].time_ratio]))
            /\ rec \in {"NOT RECOMMENDED", "USE ONLY FOR BATCH PROCESSING",
                        "CONSIDER FOR CRITICAL CASES"}
            /\ (rec = "NOT RECOMMENDED") = RatGt(r, Rat(7, 2))
            /\ (rec = "USE ONLY FOR BATCH PROCESSING")
                  = (RatGt(r, Rat(5, 2)) /\ RatLeq(r, Rat(7, 2)))
            /\ (rec = "CONSIDER FOR CRITICAL CASES") = RatLeq(r, Rat(5, 2))
            /\ (Len(results) = 1 /\ results[1].regular_time = 10
                    /\ results[1].tta_time = 40) => rec = "NOT RECOMMENDED"

\* two images of time ratios 3.0 and 4.0: the mean is exactly 3.5
C19_Witness ==
    /\ t_pc = "summarised"
    /\ Len(results) = 2
    /\ RatEq(results[1].time_ratio, Rat(3, 1))
    /\ RatEq(results[2].time_ratio, Rat(4, 1))
    /\ summary.recommendation.recommendation = "USE ONLY FOR BATCH PROCESSING"

\* the order in which the predictions of image i were taken (np.argsort of
\* the image's scores, a function of that array alone), read off step_log
RECURSIVE OrderTaken(_, _)
OrderTaken(i, log) ==
    IF log = <<>> THEN <<>>
    ELSE IF Head(log).img = i THEN <<Head(log).idx>> \o OrderTaken(i, Tail(log))
    ELSE OrderTaken(i, Tail(log))

\* the matcher run on one image alone, its predictions taken in the given
\* order: the tp, fp and fn counters it ends with
RECURSIVE MatchAlone(_, _, _, _, _, _, _)
MatchAlone(pred, gt, thr, order, tp_c, fp_c, matched) ==
    IF order = <<>>
    THEN [tp |-> tp_c, fp |-> fp_c,
          fn |-> [c \in CounterIds |->
                    Cardinality({g \in 0..(Len(gt.classes) - 1) :
                                   g \notin matched /\ gt.classes[g + 1] = c})]]
    ELSE LET idx == Head(order)
             cls == pred.classes[idx + 1]
             best == FindBest(pred.boxes[idx + 1], cls, gt, matched)
             hit == RatGeq(best.best_iou, thr) /\ best.best_gt_idx # -1
         IN  IF hit
             THEN MatchAlone(pred, gt, thr, Tail(order), Incr(tp_c, cls), fp_c,
                             matched \cup {best.best_gt_idx})
             ELSE MatchAlone(pred, gt, thr, Tail(order), tp_c, Incr(fp_c, cls), matched)

AloneCounts(i) ==
    MatchAlone(predictions[i], ground_truth[i], iou_threshold,
               OrderTaken(i, step_log), ZeroCounter, ZeroCounter, {})

\* sum over the images 1..n of one counter (f = "tp", "fp" or "fn") of class c
RECURSIVE SumAlone(_, _, _)
SumAlone(f, c, n) ==
    IF n = 0 THEN 0 ELSE AloneCounts(n)[f][c] + SumAlone(f, c, n - 1)

\* C20: after any number of whole images, and at the end, the tp/fp/fn of the
\* batch are the sums of the counters the matcher gets on each of these
\* images alone; a sum of per-image terms does not depend on the order of
\* the images nor on how the batch is cut into sub-batches.
C20_CountsArePerImageSums ==
    m_pc \in {"image", "returned"} =>
        \A c \in CounterIds :
            /\ tp[c] = SumAlone("tp", c, m_img - 1)
            /\ fp[c] = SumAlone("fp", c, m_img - 1)
            /\ fn[c] = SumAlone("fn", c, m_img - 1)

\* two images that each hold a match on their ground-truth index 0
C20_Witness ==
    /\ m_pc = "returned"
    /\ Len(predictions) = 2
    /\ \E j, k \in 1..Len(match_log) :
          /\ match_log[j][1] = 1 /\ match_log[j][3] = 0
          /\ match_log[k][1] = 2 /\ match_log[k][3] = 0
    /\ tp[0] = 2

\* the orders the n images of a batch can be handed over in
ImageOrders(n) == {f \in [1..n -> 1..n] : \A j, k \in 1..n : f[j] = f[k] => j = k}

\* C21: the AP of a class is the same for every order of the images of the
\* batch (predictions and ground truth reordered together), also when
\* predictions of different images have equal scores.
C21_ApPermutationInvariant ==
    a_pc = "returned" =>
        \A f \in ImageOrders(Len(predictions)) :
            RatEq(ap, CalculateApForClass([j \in 1..Len(predictions) |-> predictions[f[j]]],
                                          [j \in 1..Len(ground_truth) |-> ground_truth[f[j]]],
                                          class_id, iou_threshold))



-----------------------------------------------------------------------------
(* One image through ImprovedPredictor.predict and SlideAggregator.aggregate_slide *)

\* conf_threshold=0.25, the default of aggregate_slide and the value the
\* experiment passes (hundredths)
conf_threshold == 25

\* results[0].boxes of model.predict(image_path, conf=conf_threshold): the
\* candidates of the image whose confidence lies above conf_threshold, as
\* runs of boxes.cls
KeptRuns(candidates) ==
    RunsOf([c \in 0..6 |->
              Cardinality({j \in 1..Len(candidates) :
                             /\ candidates[j].conf > conf_threshold
                             /\ candidates[j].cls = c})])

\* aggregate_slide on the image the predictor has just decided
AggregateImage ==
    /\ p_pc = "returned"
    /\ slide_result = None
    /\ slide_boxes' = KeptRuns(boxes)
    /\ slide_result' = AggregateSlideResult(class_names, KeptRuns(boxes))
    /\ UNCHANGED class_names
    /\ UNCHANGED <<pvars, uvars, bvars, mvars, avars, qvars, tvars, hvars, evars>>

InitPipeline ==
    /\ class_names \in {ConfigClassNames, ExperimentClassNames}
    /\ slide_boxes = <<>>
    /\ slide_result = None
    /\ PIdle /\ UIdle /\ BIdle /\ MIdle /\ AIdle /\ QIdle /\ TIdle /\ HIdle /\ EIdle
NextPipeline == PredictCall \/ PredictBox \/ PredictReturn \/ AggregateImage
SpecPipeline == InitPipeline /\ [][NextPipeline]_vars

\* C22: every cell the slide aggregator tallies for an image is a detection
\* the predictor accepted for that image: for each class id the slide holds no
\* more cells than the predictor returned detections of that class with
\* passes_threshold set.
C22_TalliedCellsAreAccepted ==
    (p_pc = "returned" /\ slide_result # None) =>
        \A c \in 0..6 :
            NumBoxes(SelectSeq(slide_boxes, LAMBDA r : r.cls = c))
                <= Cardinality({j \in 1..Len(p_ret.detections) :
                                  /\ p_ret.detections[j].class_id = c
                                  /\ p_ret.detections[j].passes_threshold})


\* C23: when no abnormal rule of the cascade matches a slide with cells, the
\* diagnosis is NILM and the diagnosis confidence is the percentage of the
\* slide's cells of the normal class (class id 0), under the class names of
\* TrainingConfig as under those of the slide-aggregation experiment.
C23_NilmConfidenceIsNormalShare ==
    (/\ slide_result # None
     /\ slide_result.total_cells > 0
     /\ CascadeClass(slide_boxes) = 0) =>
        /\ slide_result.slide_diagnosis = "NILM"
        /\ RatEq(slide_result.diagnosis_confidence, ShareOfClass(slide_boxes, 0))


-----------------------------------------------------------------------------
(* POST /v1/classify of src/main.py, with YOLOCervicalClassifier of
   src/model_loader.py.  An optional request field is <<>> for None and
   <<v>> for a value; scores and thresholds are in hundredths. *)

\* self.class_names of YOLOCervicalClassifier
ApiClassNames == <<"healthy", "rubbish", "unhealthy", "bothcells">>

\* the slide ids of the requests; "../cases" holds characters the case-id
\* pattern rejects
SlideIds == {"", "NONEXISTENT", "CRIC-1", "CRIC-2", "SLIDE-002", "../cases"}

\* the requests: slide_id and image_uri missing or given, conf_threshold
\* null, zero, inside and outside [0, 1]
ClassifyReqs ==
    [slide_id : {<<>>} \cup {<<x>> : x \in SlideIds},
     image_uri : {<<>>, <<"">>, <<"images/a.png">>},
     conf_threshold : {<<>>, <<0>>, <<25>>, <<100>>, <<-50>>, <<150>>}]

\* slide_id = req.slide_id or "SLIDE-001"
SlideIdOf(r) ==
    IF r.slide_id = <<>> \/ r.slide_id = <<"">> THEN "SLIDE-001" ELSE r.slide_id[1]

\* conf_threshold = req.conf_threshold or 0.25
ConfThresholdOf(r) ==
    IF r.conf_threshold = <<>> \/ r.conf_threshold = <<0>> THEN 25
    ELSE r.conf_threshold[1]

\* _case_file_for_id: the file name for a case id, or the 400 it raises for
\* an id that is empty or does not match [a-z0-9-]+ once lowered
CaseFileForId(case_id) ==
    CASE case_id = "" -> [status |-> 400, file |-> ""]
      [] case_id = "../cases" -> [status |-> 400, file |-> ""]
      [] case_id = "NONEXISTENT" -> [status |-> 200, file |-> "nonexistent.json"]
      [] case_id = "CRIC-1" -> [status |-> 200, file |-> "cric-1.json"]
      [] case_id = "CRIC-2" -> [status |-> 200, file |-> "cric-2.json"]
      [] case_id = "SLIDE-001" -> [status |-> 200, file |-> "slide-001.json"]
      [] case_id = "SLIDE-002" -> [status |-> 200, file |-> "slide-002.json"]

\* public/cases: cric-1.json names the image of its first slide, cric-2.json
\* has no slides[0].uri; no other file exists
CaseFiles ==
    [f \in {"cric-1.json", "cric-2.json"} |->
        IF f = "cric-1.json" THEN <<"images/cric-1.png">> ELSE <<>>]

\* the inner try of classify: TRUE when the case resolves to an image; every
\* exception in it becomes HTTPException(status_code=404)
CaseResolves(slide_id) ==
    LET case_file == CaseFileForId(slide_id)
    IN  /\ case_file.status = 200
        /\ case_file.file \in DOMAIN CaseFiles
        /\ CaseFiles[case_file.file] # <<>>

\* what the detector finds on an image, before the confidence filter; class
\* id 4 lies outside class_names
ApiCandidates == [xyxy : {<<10, 20, 40, 60>>}, cls : {0, 2, 4}, conf : {10, 30, 95}]

\* what model_inference.predict does: it raises, or the detector returns a
\* list of candidates
InferenceOutcomes ==
    {[raises |-> TRUE, found |-> <<>>]}
    \cup [raises : {FALSE}, found : SeqsUpTo(ApiCandidates, MaxBoxes)]

\* process_yolo_results on the boxes self.model(image, conf=conf_threshold) keeps
ProcessYoloResults(found, conf) ==
    LET kept == SelectSeq(found, LAMBDA b : b.conf > conf)
    IN  [j \in 1..Len(kept) |->
            [x |-> kept[j].xyxy[1],
             y |-> kept[j].xyxy[2],
             w |-> kept[j].xyxy[3] - kept[j].xyxy[1],
             h |-> kept[j].xyxy[4] - kept[j].xyxy[2],
             label |-> IF kept[j].cls < Len(ApiClassNames)
                       THEN ApiClassNames[kept[j].cls + 1]
                       ELSE "class_" \o ToString(kept[j].cls),
             score |-> kept[j].conf,
             class_id |-> kept[j].cls]]

\* get_class_summary
GetClassSummary(bxs) ==
    [name \in Range(ApiClassNames) |->
        Cardinality({j \in 1..Len(bxs) : bxs[j].label = name})]

\* the mock_results table of get_mock_results
MockResults ==
    [k \in {"SLIDE-001", "SLIDE-002", "SLIDE-003", "SLIDE-004"} |->
        CASE k = "SLIDE-001" ->
               <<[x |-> 120, y |-> 120, w |-> 100, h |-> 100, label |-> "HSIL", score |-> 92],
                 [x |-> 300, y |-> 200, w |-> 60, h |-> 60,
                  label |-> "Negative for intraepithelial lesion", score |-> 65]>>
          [] k = "SLIDE-002" ->
               <<[x |-> 200, y |-> 180, w |-> 90, h |-> 80, label |-> "LSIL", score |-> 73]>>
          [] k = "SLIDE-003" ->
               <<[x |-> 180, y |-> 100, w |-> 85, h |-> 75, label |-> "ASC-US", score |-> 85]>>
          [] k = "SLIDE-004" ->
               <<[x |-> 110, y |-> 140, w |-> 95, h |-> 85, label |-> "SCC", score |-> 94]>>]

\* get_mock_results
GetMockResults(slide_id) ==
    LET bxs == IF slide_id \in DOMAIN MockResults THEN MockResults[slide_id]
               ELSE MockResults["SLIDE-001"]
    IN  [slide_id |-> slide_id,
         boxes |-> bxs,
         total_detections |-> Len(bxs),
         class_summary |->
             [name \in Range(ExperimentClassNames) |->
                 Cardinality({j \in 1..Len(bxs) : bxs[j].label = name})]]

\* response_model=ClassifyResp: the returned dictionary is sent with status 200
\* when it has the fields of ClassifyResp and every box those Box requires;
\* a dictionary that fails the validation is answered with status 500
SendClassifyResp(body) ==
    IF /\ {"slide_id", "boxes", "total_detections", "class_summary"} \subseteq DOMAIN body
       /\ \A j \in 1..Len(body.boxes) :
            {"x", "y", "w", "h", "label", "score"} \subseteq DOMAIN body.boxes[j]
    THEN [status |-> 200, body |-> body]
    ELSE [status |-> 500, body |-> [detail |-> "Internal Server Error"]]

\* except Exception: return get_mock_results(slide_id)
InferenceFailed_Error(slide_id) ==
    [status |-> 500, body |-> [detail |-> "Internal Server Error"]]
InferenceFailed(slide_id) == SendClassifyResp(GetMockResults(slide_id))

\* the handler classify: what ran of the inference, and the response
ClassifyOutcome(r, loaded, outcome) ==
    LET slide_id == SlideIdOf(r)
        conf == ConfThresholdOf(r)
        boxes_out == ProcessYoloResults(outcome.found, conf)
        predicted ==
            IF outcome.raises
            THEN [inference |-> "raised", resp |-> InferenceFailed(slide_id)]
            ELSE [inference |-> "returned",
                  resp |-> SendClassifyResp(
                      [slide_id |-> slide_id,
                       boxes |-> boxes_out,
                       total_detections |-> Len(boxes_out),
                       class_summary |-> GetClassSummary(boxes_out)])]
    IN  IF loaded = "None"
        THEN [inference |-> "not_run", resp |-> SendClassifyResp(GetMockResults(slide_id))]
        ELSE IF r.image_uri # <<>> /\ r.image_uri # <<"">> THEN predicted
        ELSE IF ~CaseResolves(slide_id)
        THEN [inference |-> "not_run",
              resp |-> [status |-> 404,
                        body |-> [detail |-> "Could not resolve slide_id to a case"]]]
        ELSE predicted

\* startup_event: the model file is found and loads, or the server runs in
\* mock mode
StartupEvent ==
    /\ h_pc = "init"
    /\ model_inference' \in {"None", "YOLO"}
    /\ h_pc' = "serving"
    /\ UNCHANGED <<req, inference, resp>>
    /\ UNCHANGED <<pvars, svars, uvars, bvars, mvars, avars, qvars, tvars, evars>>

\* a POST /v1/classify arrives and its body is parsed into a ClassifyReq
ClassifyRequest ==
    /\ h_pc = "serving"
    /\ req' \in ClassifyReqs
    /\ h_pc' = "handling"
    /\ inference' = "not_run"
    /\ resp' = None
    /\ UNCHANGED model_inference
    /\ UNCHANGED <<pvars, svars, uvars, bvars, mvars, avars, qvars, tvars, evars>>

\* classify(req) runs and the response is sent
Classify ==
    /\ h_pc = "handling"
    /\ \E outcome \in InferenceOutcomes :
        LET out == ClassifyOutcome(req, model_inference, outcome)
        IN  /\ inference' = out.inference
            /\ resp' = out.resp
    /\ h_pc' = "serving"
    /\ UNCHANGED <<model_inference, req>>
    /\ UNCHANGED <<pvars, svars, uvars, bvars, mvars, avars, qvars, tvars, evars>>

InitClassify == PIdle /\ SIdle /\ UIdle /\ BIdle /\ MIdle /\ AIdle /\ QIdle /\ TIdle /\ HIdle /\ EIdle
NextClassify == StartupEvent \/ ClassifyRequest \/ Classify
SpecClassify == InitClassify /\ [][NextClassify]_vars

GatedBoxes(raw) == SelectSeq(raw, LAMBDA b : b.conf >= objectness_threshold)

\* C25: for a box without a class-score vector the detection takes its class
\* id from box.cls and its confidence from the box confidence, and it is
\* accepted exactly when that confidence reaches the threshold of its class
\* name, 0.30 when the name has no entry.
C25_FallbackPath ==
    \A j \in 1..Len(detections) :
        LET b == GatedBoxes(boxes)[j]
            d == detections[j]
            thr == IF d.class_name \in DOMAIN per_class_thresholds
                   THEN per_class_thresholds[d.class_name] ELSE 30
        IN  Len(b.data) = 0 =>
                /\ d.class_id = b.cls
                /\ d.objectness = b.conf
                /\ RatEq(d.confidence, Rat(b.conf, 100))
                /\ d.threshold_used = thr
                /\ d.passes_threshold = (b.conf >= thr)

\* two boxes without a class-score vector and of confidence 0.30: the one of
\* an unlisted class id is accepted at the default threshold, the NILM one is
\* rejected at the threshold of its class
C25_Witness ==
    /\ p_pc = "returned"
    /\ Len(boxes) = 2
    /\ \A j \in 1..2 : Len(boxes[j].data) = 0 /\ boxes[j].conf = 30
    /\ boxes[1].cls = 6 /\ boxes[2].cls = 0
    /\ Len(p_ret.detections) = 2
    /\ p_ret.detections[1].passes_threshold
    /\ p_ret.detections[1].threshold_used = 30
    /\ ~p_ret.detections[2].passes_threshold
    /\ p_ret.accepted = 1


\* C26: for every class, the tp count calculate_detection_metrics reports for
\* a batch equals the cumulative tp at the end of the sweep of
\* _calculate_ap_for_class on the same batch and IoU threshold, also when two
\* predictions of one image have the same score.
C26_TpAgreesWithSweep ==
    (m_pc = "returned" /\ a_pc = "returned" /\ total_gt > 0) =>
        metrics[ConfigClassNames[class_id + 1]].tp = ap_tp


\* severity rank of a diagnosis: NILM < ASC-US < LSIL < ASC-H < HSIL < SCC
Severity(diagnosis) ==
    CASE diagnosis = "NILM" -> 0
      [] diagnosis = "ASC-US" -> 1
      [] diagnosis = "LSIL" -> 2
      [] diagnosis = "ASC-H" -> 3
      [] diagnosis = "HSIL" -> 4
      [] diagnosis = "SCC" -> 5

\* the diagnosis of the slide with one more cell of class id cid
DiagnosisWithOneMore(names, runs, cid) ==
    AggregateSlideResult(names,
        RunsOf([c \in 0..6 |-> CellsOfClass(runs, c) + (IF c = cid THEN 1 ELSE 0)])
    ).slide_diagnosis

\* the count of class id cid alone meets the count threshold of its rule
CountRuleMet(runs, cid) ==
    CASE cid = 5 -> CellsOfClass(runs, 5) > 0
      [] cid = 4 -> CellsOfClass(runs, 4) > 10
      [] cid = 2 -> CellsOfClass(runs, 2) > 15
      [] cid = 3 -> CellsOfClass(runs, 3) > 5
      [] cid = 1 -> CellsOfClass(runs, 1) > 10
      [] OTHER -> FALSE

\* C27 as stated: one more cell of any abnormal class never lowers the
\* severity of the diagnosis of a non-empty slide.
C27_OneMoreAbnormalNeverLowers ==
    (slide_result # None /\ slide_result.total_cells > 0) =>
        \A cid \in 1..5 :
            Severity(DiagnosisWithOneMore(class_names, slide_boxes, cid))
                >= Severity(slide_result.slide_diagnosis)


\* class id of the category a diagnosis names
DiagnosisClass(diagnosis) ==
    CASE diagnosis = "NILM" -> 0
      [] diagnosis = "ASC-US" -> 1
      [] diagnosis = "ASC-H" -> 2
      [] diagnosis = "LSIL" -> 3
      [] diagnosis = "HSIL" -> 4
      [] diagnosis = "SCC" -> 5

\* C27 as amended: one more cell of an abnormal class never lowers the
\* severity of the
\* diagnosis of a non-empty slide when the diagnosis before is NILM, or the
\* count of the diagnosed category alone meets the count threshold of its
\* rule, or the added cell is of the diagnosed category.
C27_OneMoreNeverLowersUndiluted ==
    (slide_result # None /\ slide_result.total_cells > 0) =>
        \A cid \in 1..5 :
            LET before == slide_result.slide_diagnosis
            IN  (\/ before = "NILM"
                 \/ CountRuleMet(slide_boxes, DiagnosisClass(before))
                 \/ cid = DiagnosisClass(before)) =>
                    Severity(DiagnosisWithOneMore(class_names, slide_boxes, cid))
                        >= Severity(before)

\* a slide diagnosed LSIL by its count of 6 with a share of at most 2 percent:
\* one more ASC-US cell leaves it LSIL, one more HSIL cell leaves it LSIL too
C27_Witness ==
    /\ slide_result # None
    /\ slide_result.slide_diagnosis = "LSIL"
    /\ CellsOfClass(slide_boxes, 3) = 6
    /\ 6 * 100 <= 2 * slide_result.total_cells
    /\ DiagnosisWithOneMore(class_names, slide_boxes, 1) = "LSIL"
    /\ DiagnosisWithOneMore(class_names, slide_boxes, 4) = "LSIL"


\* C28: on a slide with cells, all of them of the six named classes, a NILM
\* diagnosis means that no cell is SCC, that at most 1 percent of the cells
\* are HSIL, 2 percent ASC-H, 2 percent LSIL and 3 percent ASC-US, and that
\* at least 92 percent are of the normal class; a slide without a normal cell
\* is not diagnosed NILM.
C28_NilmMeansMostlyNormal ==
    (/\ slide_result # None
     /\ slide_result.total_cells > 0
     /\ CellsOfClass(slide_boxes, 6) = 0
     /\ slide_result.slide_diagnosis = "NILM") =>
        LET total == slide_result.total_cells
        IN  /\ CellsOfClass(slide_boxes, 5) = 0
            /\ CellsOfClass(slide_boxes, 4) * 100 <= 1 * total
            /\ CellsOfClass(slide_boxes, 2) * 100 <= 2 * total
            /\ CellsOfClass(slide_boxes, 3) * 100 <= 2 * total
            /\ CellsOfClass(slide_boxes, 1) * 100 <= 3 * total
            /\ CellsOfClass(slide_boxes, 0) * 100 >= 92 * total
            /\ CellsOfClass(slide_boxes, 0) > 0

\* a NILM slide with every abnormal share at its limit: 92 normal cells among
\* 100, with 3 ASC-US, 2 ASC-H, 2 LSIL and 1 HSIL
C28_Witness ==
    /\ slide_result # None
    /\ slide_result.total_cells = 100
    /\ slide_result.slide_diagnosis = "NILM"
    /\ CellsOfClass(slide_boxes, 0) = 92
    /\ CellsOfClass(slide_boxes, 1) = 3
    /\ CellsOfClass(slide_boxes, 4) = 1


\* C29: at every step of the sweep of a class the cumulative tp is at most the
\* ground-truth count of the class, the recalls never fall and lie in [0, 1],
\* every precision lies in [0, 1], and the boxes marked as matched in an image
\* are ground-truth boxes of that image and class, each taken by a prediction
\* of the same image.
C29_SweepBounds ==
    a_pc = "sweep" =>
        /\ ap_tp <= total_gt
        /\ \A j \in 1..Len(recalls) :
              /\ RatLeq(Zero, recalls[j]) /\ RatLeq(recalls[j], One)
              /\ j > 1 => RatLeq(recalls[j - 1], recalls[j])
        /\ \A j \in 1..Len(precisions) :
              RatLeq(Zero, precisions[j]) /\ RatLeq(precisions[j], One)
        /\ \A i \in 1..Len(ground_truth) :
              \A g \in ap_matched_gt[i] :
                  /\ g + 1 \in 1..Len(ground_truth[i].boxes)
                  /\ ground_truth[i].classes[g + 1] = class_id
                  /\ \E k \in 1..(a_k - 1) :
                        /\ all_predictions[k].image_id = i - 1
                        /\ <<i, k, g>> \in Range(ap_match_log)
        /\ ap_tp = SumSeq([i \in 1..Len(ground_truth) |-> Cardinality(ap_matched_gt[i])])

\* the sweep is through two images, each with a box of the class taken by the
\* prediction of its own image: tp has reached the ground-truth count, 2
C29_Witness ==
    /\ a_pc = "sweep"
    /\ a_k > Len(all_predictions)
    /\ Len(ground_truth) = 2
    /\ total_gt = 2
    /\ ap_tp = 2
    /\ \A i \in 1..2 : Cardinality(ap_matched_gt[i]) = 1
    /\ recalls = <<Rat(1, 2), Rat(1, 1)>>


-----------------------------------------------------------------------------
(* ModelEvaluator.evaluate_on_dataset *)

MaxEvalImages == 2

\* the boxes of the evaluated images: below and above the objectness gate;
\* with scores that make HSIL accepted, NILM rejected or a seventh class
\* accepted, or without scores and of class id 0 or 6
EvalBoxes ==
    {b \in RawBoxes :
        /\ b.conf \in {10, 45}
        /\ b.data \in {Peak(6, 5, 2), Peak(6, 1, 0), Peak(7, 7, 2), <<>>}
        /\ b.cls \in {0, 6}}

\* what the detector returns on an image of the directory
EvalOutputs ==
    {[present |-> FALSE, boxes |-> <<>>]}
    \cup [present : {TRUE}, boxes : SeqsUpTo(EvalBoxes, MaxBoxes)]

\* self.predictor.predict(img_path): the dictionary predict returns
PredictOf(raw) ==
    IF ~raw.present \/ Len(raw.boxes) = 0 THEN EmptyPrediction
    ELSE LET gated == SelectSeq(raw.boxes, LAMBDA b : ~ObjectnessRejected(b.conf))
             dets == [j \in 1..Len(gated) |-> Detection(gated[j])]
         IN  [detections |-> dets,
              total_boxes |-> Len(raw.boxes),
              accepted |-> Cardinality({j \in 1..Len(dets) : dets[j].passes_threshold})]

\* every detection of every prediction, in order
RECURSIVE AllDetections(_)
AllDetections(preds) ==
    IF preds = <<>> THEN <<>>
    ELSE Head(preds).detections \o AllDetections(Tail(preds))

\* class_counts_all[det["class_name"]] += 1 finds no such key
CountsKeyError(dets) ==
    \E j \in 1..Len(dets) : dets[j].class_name \notin Range(ConfigClassNames)

\* results['accepted_detections'] / results['total_detections'] * 100 in the
\* summary that is printed before the return
AcceptanceRateRaises(total_detections) == total_detections = 0

\* the results dictionary
EvaluationResults(paths, preds) ==
    LET dets == AllDetections(preds)
    IN  [num_images |-> Len(paths),
         total_detections |-> SumSeq([j \in 1..Len(preds) |-> preds[j].total_boxes]),
         accepted_detections |-> SumSeq([j \in 1..Len(preds) |-> preds[j].accepted]),
         class_counts_all |->
             [name \in Range(ConfigClassNames) |->
                 Cardinality({j \in 1..Len(dets) : dets[j].class_name = name})],
         class_counts_accepted |->
             [name \in Range(ConfigClassNames) |->
                 Cardinality({j \in 1..Len(dets) :
                                /\ dets[j].class_name = name
                                /\ dets[j].passes_threshold})]]

\* evaluate_on_dataset(image_dir): the images of the directory are listed
EvaluateOnDatasetCall ==
    /\ e_pc = "idle"
    /\ e_image_paths' \in SeqsUpTo(EvalOutputs, MaxEvalImages)
    /\ e_i' = 1
    /\ e_predictions' = <<>>
    /\ e_pc' = "predicting"
    /\ UNCHANGED e_results
    /\ UNCHANGED <<pvars, svars, uvars, bvars, mvars, avars, qvars, tvars, hvars>>

\* lines 68-70: one image of the prediction loop
EvaluatePredict ==
    /\ e_pc = "predicting"
    /\ e_i <= Len(e_image_paths)
    /\ e_predictions' = Append(e_predictions, PredictOf(e_image_paths[e_i]))
    /\ e_i' = e_i + 1
    /\ UNCHANGED <<e_pc, e_image_paths, e_results>>
    /\ UNCHANGED <<pvars, svars, uvars, bvars, mvars, avars, qvars, tvars, hvars>>

\* lines 72-125: the counters, the printed summary and the return
EvaluateSummary ==
    /\ e_pc = "predicting"
    /\ e_i > Len(e_image_paths)
    /\ LET res == EvaluationResults(e_image_paths, e_predictions)
       IN  IF CountsKeyError(AllDetections(e_predictions))
           THEN e_pc' = "KeyError" /\ UNCHANGED e_results
           ELSE IF AcceptanceRateRaises(res.total_detections)
           THEN e_pc' = "ZeroDivisionError" /\ UNCHANGED e_results
           ELSE e_pc' = "returned" /\ e_results' = res
    /\ UNCHANGED <<e_image_paths, e_i, e_predictions>>
    /\ UNCHANGED <<pvars, svars, uvars, bvars, mvars, avars, qvars, tvars, hvars>>

InitEvaluator == PIdle /\ SIdle /\ UIdle /\ BIdle /\ MIdle /\ AIdle /\ QIdle /\ TIdle /\ HIdle /\ EIdle
NextEvaluator == EvaluateOnDatasetCall \/ EvaluatePredict \/ EvaluateSummary
SpecEvaluator == InitEvaluator /\ [][NextEvaluator]_vars

\* C30: evaluate_on_dataset returns a results record for every directory of
\* images and raises for none, also when the detector finds no box in any
\* image and when a detection has a class id outside the class names; in the
\* record accepted_detections is at most total_detections and the per-class
\* accepted counts add up to accepted_detections.
C30_EvaluateAlwaysReturns ==
    /\ e_pc \in {"idle", "predicting", "returned"}
    /\ e_pc = "returned" =>
          /\ e_results.accepted_detections <= e_results.total_detections
          /\ SumSeq([c \in 1..Len(ConfigClassNames) |->
                        e_results.class_counts_accepted[ConfigClassNames[c]]])
                = e_results.accepted_detections

=============================================================================
